---- MODULE Spec2Model ----
(***************************************************************************)
(* Model of the fulltext indexers (src/src/indexers): the chunker, the     *)
(* XML parser tasks, the analyzer, and the three build topologies          *)
(* (RayonIndexer map/reduce, ThreadPoolIndexer with per-worker hash maps,  *)
(* ThreadPoolIndexer with one shared DashMap).                             *)
(*                                                                         *)
(* Text is modelled at the byte level: a corpus is a sequence of byte      *)
(* values 0..255, a chunk is a slice of it, ranges are byte offsets.       *)
(***************************************************************************)
EXTENDS Integers, Sequences, FiniteSets, TLC

\* ------------------------------------------------------------------ bounds
\* Chunker inputs: at most MaxUnits units (a character or a tag) ...
MaxUnits == 4
\* ... split into at most MaxChunks chunks.
MaxChunks == 4
\* Build inputs: at most MaxDocs <doc> elements in a corpus,
MaxDocs == 2
\* at most MaxParse parser threads / chunks (parse_threads, num_cpus),
MaxParse == 3
\* and at most MaxIndex indexer threads (index_threads).
MaxIndex == 2
\* Under fair scheduling the pool holds at most MaxPool threads.
MaxPool == 4

VARIABLES
    backend,         \* "mapreduce" | "pipeline_partitioned" | "pipeline_shared",
                     \* or the front-end binary: "main" | "main_set" | "main_dashmap"
    file_contents,   \* the corpus bytes handed to build_from_file_contents
    parse_threads,   \* ThreadPoolIndexer.parse_threads / num_cpus::get()
    index_threads,   \* ThreadPoolIndexer.index_threads / num_cpus::get()
    pc,              \* position of the thread running build_from_file_contents
    contents_split,  \* Vec<ContentsSplit> returned by split_contents
    cur_id,          \* the indexer's AtomicI32
    parsers,         \* one parser task per chunk
    indexers,        \* one indexer task per index thread
    rx_doc,          \* document channel (batches of DocumentRaw)
    rx_index,        \* index channel (partial inverted indices)
    rx_alldocs,      \* all-docs channel (one vector per parser)
    shared_index,    \* the DashMap all dashmap_index_tasks insert into
    joined_index,    \* the coordinator's merged index (build_hashmap)
    partials,        \* the partial indices of the map/reduce build
    documents,       \* the document table
    index,           \* the indexer's inverted index after the build
    panic,           \* why the building thread panicked ("" while it has not)
    disk,            \* the files P, P.idx, P.dcm, P.idx.tmp, P.dcm.tmp
    writer,          \* position of the thread running write_index_to_path
    loader,          \* position of the thread running load_from_path
    serialized,      \* the SerializedIndex load_from_path returned
    fresh,           \* a second RayonIndexer, filled by build_from_serialized
    query,           \* the search_terms of the last search call
    results,         \* what that call returned
    index_files,     \* main's file_contents: the contents of the --index files
    appended         \* how many of them append_documents has run over

\* the state of the single-parser front-ends
front == <<index_files, appended>>

\* the state the build leaves alone
cache == <<disk, writer, loader, serialized, fresh, query, results>>

vars == <<backend, file_contents, parse_threads, index_threads, pc,
          contents_split, cur_id, parsers, indexers, rx_doc, rx_index,
          rx_alldocs, shared_index, joined_index, partials, documents, index,
          panic, disk, writer, loader, serialized, fresh, query, results,
          index_files, appended>>

\* ------------------------------------------------------- generic helpers
Min(S) == CHOOSE x \in S : \A y \in S : x <= y

RECURSIVE Flatten(_)
Flatten(ss) == IF ss = <<>> THEN <<>> ELSE Head(ss) \o Flatten(Tail(ss))

RECURSIVE SeqsUpTo(_, _)
SeqsUpTo(S, n) ==
    IF n = 0 THEN {<<>>}
    ELSE LET shorter == SeqsUpTo(S, n - 1)
         IN  shorter \cup {Append(s, x) : s \in {t \in shorter : Len(t) = n - 1}, x \in S}

SeqToSet(s) == {s[i] : i \in 1..Len(s)}

\* Op applied to the value of v, which is computed once
With(v, Op(_)) == CHOOSE r \in {Op(x) : x \in {v}} : TRUE

\* bytes[lo..hi) with 0-based offsets, as Rust's &s[lo..hi]
slice(bytes, lo, hi) == SubSeq(bytes, lo + 1, hi)

\* ---------------------------------------------------------------- UTF-8
\* The bytes 0x80..0xBF continue a code point.
is_continuation(b) == b >= 128 /\ b <= 191

\* str::is_char_boundary: offset 0, offset len, or a byte that starts a code point
is_char_boundary(bytes, i) ==
    \/ i = 0
    \/ i = Len(bytes)
    \/ i > 0 /\ i < Len(bytes) /\ ~is_continuation(bytes[i + 1])

\* Length of the code point a lead byte announces (0: not a lead byte).
utf8_width(b) ==
    IF b < 128 THEN 1
    ELSE IF b >= 194 /\ b <= 223 THEN 2
    ELSE IF b >= 224 /\ b <= 239 THEN 3
    ELSE IF b >= 240 /\ b <= 244 THEN 4
    ELSE 0

\* std::str::from_utf8(bytes).is_ok(): every code point of the window is
\* complete. (The second-byte range rules of E0/ED/F0/F4 are not modelled:
\* windows are taken from a valid string, where they always hold.)
RECURSIVE from_utf8_ok(_)
from_utf8_ok(bytes) ==
    IF bytes = <<>> THEN TRUE
    ELSE LET w == utf8_width(Head(bytes))
         IN  /\ w > 0
             /\ w <= Len(bytes)
             /\ \A k \in 2..w : is_continuation(bytes[k])
             /\ from_utf8_ok(SubSeq(bytes, w + 1, Len(bytes)))

\* std::mem::size_of::<char>()
size_of_char == 4

\* A result that may be a panic of the thread computing it; why names the
\* check that failed: "slice_end" (a byte range reaching past the end),
\* "char_boundary" (a str range that starts or ends inside a code point),
\* "slice_order" (a range whose start is after its end), "assert", "unwrap",
\* "index_out_of_bounds".
Ok(v) == [panicked |-> FALSE, value |-> v, why |-> ""]
Panic(why) == [panicked |-> TRUE, value |-> <<>>, why |-> why]

\* get_next_codepoint_idx: advance try_index until the 4-byte window at it
\* decodes. The window slice panics when it reaches past the end.
RECURSIVE get_next_codepoint_idx(_, _)
get_next_codepoint_idx(string, try_index) ==
    IF try_index < Len(string)
    THEN IF try_index + size_of_char > Len(string)
         THEN Panic("slice_end")
         ELSE IF from_utf8_ok(slice(string, try_index, try_index + size_of_char))
              THEN Ok(try_index)
              ELSE get_next_codepoint_idx(string, try_index + 1)
    ELSE Ok(try_index)

\* str::find: the set holding the first offset of needle in haystack
\* (Some(i) as {i}, None as {}).
find(haystack, needle) ==
    LET hits == {i \in 0..(Len(haystack) - Len(needle)) :
                    slice(haystack, i, i + Len(needle)) = needle}
    IN  IF hits = {} THEN {} ELSE {Min(hits)}

\* ---------------------------------------------------------------- chunker
\* "</doc>", the split_on_tag both indexers pass
CloseDocTag == <<60, 47, 100, 111, 99, 62>>

\* the literal 6 added to the tag's offset
tag_len == 6

ContentsSplit(base, bytes) == [base_offset |-> base, data |-> bytes]

\* the fallback with the chunk running to the end of the input
fallback_end_at_len(contents) == Len(contents)

\* None => ending_index = contents.len() - 1
fallback_end(contents) == Len(contents) - 1

\* The body of split_contents' for loop, iters_left iterations to go.
RECURSIVE split_loop(_, _, _, _, _, _)
split_loop(contents, split_on_tag, chars_per_split, iters_left, prev_index, splits) ==
    IF iters_left = 0 THEN Ok(splits)
    ELSE
    With(get_next_codepoint_idx(contents, prev_index + chars_per_split), LAMBDA probe :
    IF probe.panicked THEN Panic(probe.why)
    ELSE
    LET try_index == probe.value IN
    IF try_index >= Len(contents)
    THEN \* push the tail and break
         IF is_char_boundary(contents, prev_index)
         THEN Ok(Append(splits,
                 ContentsSplit(prev_index, slice(contents, prev_index, Len(contents)))))
         ELSE Panic("char_boundary")
    ELSE
    IF ~is_char_boundary(contents, try_index) THEN Panic("char_boundary")
    ELSE
    With(find(slice(contents, try_index, Len(contents)), split_on_tag), LAMBDA found :
    LET ending_index ==
            IF found # {}
            THEN try_index + (CHOOSE i \in found : TRUE) + tag_len
            ELSE fallback_end(contents)
    IN  IF ending_index < prev_index THEN Panic("slice_order")
        ELSE IF ending_index > Len(contents) THEN Panic("slice_end")
        ELSE IF \/ ~is_char_boundary(contents, prev_index)
                \/ ~is_char_boundary(contents, ending_index)
        THEN Panic("char_boundary")
        ELSE With(Append(splits,
                     ContentsSplit(prev_index, slice(contents, prev_index, ending_index))),
                  LAMBDA pushed :
                     split_loop(contents, split_on_tag, chars_per_split,
                                iters_left - 1, ending_index, pushed))))

split_contents(contents, split_on_tag, num_chunks) ==
    IF ~(num_chunks > 0) THEN Panic("assert")
    ELSE IF num_chunks <= 1 THEN Ok(<<ContentsSplit(0, contents)>>)
    ELSE split_loop(contents, split_on_tag, Len(contents) \div num_chunks,
                    num_chunks, 0, <<>>)

\* -------------------------------------------------------------- tokenizer
\* element names, as bytes
NameDoc      == <<100, 111, 99>>                          \* "doc"
NameTitle    == <<116, 105, 116, 108, 101>>               \* "title"
NameAbstract == <<97, 98, 115, 116, 114, 97, 99, 116>>    \* "abstract"
NameUrl      == <<117, 114, 108>>                         \* "url"

Token(k, name, lo, hi) == [kind |-> k, local |-> name, start |-> lo, end |-> hi]

is_name_byte(b) ==
    \/ b >= 97 /\ b <= 122
    \/ b >= 65 /\ b <= 90
    \/ b >= 48 /\ b <= 57

RECURSIVE name_end(_, _)
name_end(data, i) ==
    IF i < Len(data) /\ is_name_byte(data[i + 1])
    THEN With(i + 1, LAMBDA j : name_end(data, j))
    ELSE i

RECURSIVE text_end(_, _)
text_end(data, i) ==
    IF i < Len(data) /\ data[i + 1] # 60
    THEN With(i + 1, LAMBDA j : text_end(data, j))
    ELSE i

\* xmlparser::Tokenizer::from_fragment(data, 0..len) for the markup the
\* corpora use: <name>, </name> and text. Ranges are local to data. After an
\* Err the tokenizer yields nothing more.
RECURSIVE tokens_from(_, _)
tokens_from(data, i) ==
    IF i >= Len(data) THEN <<>>
    ELSE IF data[i + 1] = 60
    THEN IF i + 1 < Len(data) /\ data[i + 2] = 47
         THEN With(name_end(data, i + 2), LAMBDA e :
                  IF e > i + 2 /\ e < Len(data) /\ data[e + 1] = 62
                  THEN <<Token("ElementEndClose", slice(data, i + 2, e), i, e + 1)>>
                           \o tokens_from(data, e + 1)
                  ELSE <<Token("Err", <<>>, i, i)>>)
         ELSE With(name_end(data, i + 1), LAMBDA e :
                  IF e = i + 1
                  THEN <<Token("Err", <<>>, i, i)>>
                  ELSE IF e < Len(data) /\ data[e + 1] = 62
                  THEN <<Token("ElementStart", slice(data, i + 1, e), i, e),
                         Token("ElementEndOpen", <<>>, e, e + 1)>>
                           \o tokens_from(data, e + 1)
                  ELSE <<Token("ElementStart", slice(data, i + 1, e), i, e),
                         Token("Err", <<>>, e, e)>>)
    ELSE With(text_end(data, i), LAMBDA e :
             <<Token("Text", <<>>, i, e)>> \o tokens_from(data, e))

Tokenizer(data) == tokens_from(data, 0)

\* --------------------------------------------------------------- analyzer
Stopwords ==
    { <<97>>, <<97, 110, 100>>, <<98, 101>>, <<104, 97, 118, 101>>, <<105>>,
      <<105, 110>>, <<111, 102>>, <<116, 104, 97, 116>>, <<116, 104, 101>>,
      <<116, 111>> }   \* a and be have i in of that the to

\* char::is_alphanumeric, on the bytes of the text (ASCII letters and
\* digits; the bytes of a multi-byte letter stay inside a word)
is_alphanumeric(b) == is_name_byte(b) \/ b >= 128

\* letters.split(|c| !c.is_alphanumeric()): the segments, empty ones included
RECURSIVE split_acc(_, _)
split_acc(letters, cur) ==
    IF letters = <<>> THEN <<cur>>
    ELSE IF is_alphanumeric(Head(letters))
         THEN split_acc(Tail(letters), Append(cur, Head(letters)))
         ELSE <<cur>> \o split_acc(Tail(letters), <<>>)

to_lowercase(x) ==
    [k \in 1..Len(x) |-> IF x[k] >= 65 /\ x[k] <= 90 THEN x[k] + 32 ELSE x[k]]

\* a, e, i, o, u, y
is_vowel(b) == b \in {97, 101, 105, 111, 117, 121}

\* rust_stemmers English (Snowball): a word of one or two letters is returned
\* unchanged; a longer one goes through step 1a (sses -> ss; ied, ies -> i or
\* ie; us, ss kept; a final s deleted when a vowel comes before the letter
\* in front of it). The later steps change none of the words this model
\* analyzes and are left out.
stem(x) ==
    LET n == Len(x)
        ends(suffix) == n >= Len(suffix) /\ SubSeq(x, n - Len(suffix) + 1, n) = suffix
    IN  IF n <= 2 THEN x
        ELSE IF ends(<<115, 115, 101, 115>>) THEN SubSeq(x, 1, n - 2)
        ELSE IF ends(<<105, 101, 100>>) \/ ends(<<105, 101, 115>>)
             THEN IF n > 4 THEN SubSeq(x, 1, n - 2) ELSE SubSeq(x, 1, n - 1)
        ELSE IF ends(<<117, 115>>) \/ ends(<<115, 115>>) THEN x
        ELSE IF ends(<<115>>) /\ \E k \in 1..(n - 2) : is_vowel(x[k])
             THEN SubSeq(x, 1, n - 1)
        ELSE x

keep_word(x) == x \notin Stopwords /\ x # <<>>

\* Analyzer::analyze
analyze(letters) ==
    LET words == split_acc(letters, <<>>)
        lowered == [k \in DOMAIN words |-> to_lowercase(words[k])]
        kept == SelectSeq(lowered, keep_word)
    IN  [k \in DOMAIN kept |-> stem(kept[k])]

\* --------------------------------------------------------- document records
Range(lo, hi) == [start |-> lo, end |-> hi]

\* DocumentRaw::default()
DefaultDocumentRaw ==
    [title |-> Range(0, 0), url |-> Range(0, 0), text |-> Range(0, 0), id |-> 0]

\* &full_contents[range]
text_of(full_contents, range) == slice(full_contents, range.start, range.end)

\* sort_by_id with the sort left out: the table stays in arrival order
sort_by_id_skipped(docs) == docs

\* Vec::sort on DocumentRaw, whose Ord compares ids only (stable)
RECURSIVE insert_sorted(_, _)
insert_sorted(sorted, d) ==
    IF sorted = <<>> THEN <<d>>
    ELSE IF Head(sorted).id <= d.id
         THEN <<Head(sorted)>> \o insert_sorted(Tail(sorted), d)
         ELSE <<d>> \o sorted

RECURSIVE sort_by_id(_)
sort_by_id(docs) ==
    IF docs = <<>> THEN <<>>
    ELSE With(sort_by_id(SubSeq(docs, 1, Len(docs) - 1)),
              LAMBDA sorted : insert_sorted(sorted, docs[Len(docs)]))

\* ----------------------------------------------------------- inverted index
\* HashMap<String, HashSet<i32>>: a function from its keys to id sets.
EmptyIndex == [t \in {} |-> {}]

\* index_insert with a None arm that stores the new set without the id
index_insert_empty_set(inverted_index, token, id) ==
    IF token \in DOMAIN inverted_index
    THEN [inverted_index EXCEPT ![token] = @ \cup {id}]
    ELSE [t \in DOMAIN inverted_index \cup {token} |->
             IF t = token THEN {} ELSE inverted_index[t]]

\* index_insert storing id + 1: ids that count from 1
index_insert_one_based(inverted_index, token, id) ==
    IF token \in DOMAIN inverted_index
    THEN [inverted_index EXCEPT ![token] = @ \cup {id + 1}]
    ELSE [t \in DOMAIN inverted_index \cup {token} |->
             IF t = token THEN {id + 1} ELSE inverted_index[t]]

\* the get_mut / insert match of the index loops
index_insert(inverted_index, token, id) ==
    IF token \in DOMAIN inverted_index
    THEN [inverted_index EXCEPT ![token] = @ \cup {id}]
    ELSE [t \in DOMAIN inverted_index \cup {token} |->
             IF t = token THEN {id} ELSE inverted_index[t]]

RECURSIVE index_tokens(_, _, _)
index_tokens(inverted_index, tokens, id) ==
    IF tokens = <<>> THEN inverted_index
    ELSE With(index_insert(inverted_index, Head(tokens), id),
              LAMBDA inserted : index_tokens(inserted, Tail(tokens), id))

\* the `for d in documents` loop of index_docs_index_only and index_task
RECURSIVE index_docs(_, _, _)
index_docs(inverted_index, docs, full_contents) ==
    IF docs = <<>> THEN inverted_index
    ELSE IF Len(docs) = 1
    THEN index_tokens(inverted_index,
                      analyze(text_of(full_contents, docs[1].text)), docs[1].id)
    ELSE \* the loop over the first half of the batch, then over the second
         With(index_docs(inverted_index, SubSeq(docs, 1, Len(docs) \div 2), full_contents),
              LAMBDA indexed :
                  index_docs(indexed, SubSeq(docs, Len(docs) \div 2 + 1, Len(docs)),
                             full_contents))

index_docs_index_only(full_contents, docs) ==
    index_docs(EmptyIndex, docs, full_contents)

\* merge_index with insert in place of extend: a key present on both sides
\* takes the right side's set instead of the union
merge_index_replace(joined, thread_index) ==
    [k \in DOMAIN joined \cup DOMAIN thread_index |->
        IF k \in DOMAIN thread_index THEN thread_index[k] ELSE joined[k]]

\* merge_index without the extend: a key present on both sides keeps the
\* left side's set
merge_index_keep(joined, thread_index) ==
    [k \in DOMAIN joined \cup DOMAIN thread_index |->
        IF k \in DOMAIN joined THEN joined[k] ELSE thread_index[k]]

\* the merge loop: every (key, set) of thread_index is unioned into joined
RECURSIVE merge_index(_, _)
merge_index(joined, thread_index) ==
    IF DOMAIN thread_index = {} THEN joined
    ELSE LET thread_k == CHOOSE k \in DOMAIN thread_index : TRUE
             rest == [k \in DOMAIN thread_index \ {thread_k} |-> thread_index[k]]
             merged ==
                 IF thread_k \in DOMAIN joined
                 THEN [joined EXCEPT ![thread_k] = @ \cup thread_index[thread_k]]
                 ELSE [k \in DOMAIN joined \cup {thread_k} |->
                          IF k = thread_k THEN thread_index[thread_k] ELSE joined[k]]
         IN  With(merged, LAMBDA m : merge_index(m, rest))

\* ------------------------------------------------------------ parser tasks
\* batch size of the document channel
chunk_size == 100

\* a batch is sent only when it has grown past chunk_size
batch_full_late(chunk) == Len(chunk) > chunk_size

\* if chunk.len() == chunk_size
batch_full(chunk) == Len(chunk) = chunk_size

\* A parser task: the locals of parse_task / parse_documents_vec.
\* status: "queued" (spawned, not yet on a thread), "running", "flushed"
\* (the last batch is sent), "done" (returned, its senders dropped).
NewParser(split, st) ==
    [status |-> st, base_offset |-> split.base_offset, data |-> split.data,
     tokens |-> <<>>, cur_doc |-> DefaultDocumentRaw, cur_tag |-> <<>>,
     chunk |-> <<>>, all_docs |-> <<>>]

\* the token's range taken as it is, local to the chunk
absolute_unshifted(base_offset, token) == Range(token.start, token.end)

\* Range{start: base_offset+range_start, end: base_offset+range_end}
absolute(base_offset, token) == Range(base_offset + token.start, base_offset + token.end)

\* match cur_tag with the default arm storing the range as the text
store_text_any_tag(cur_doc, cur_tag, absolute_range) ==
    IF cur_tag = NameTitle THEN [cur_doc EXCEPT !.title = absolute_range]
    ELSE IF cur_tag = NameUrl THEN [cur_doc EXCEPT !.url = absolute_range]
    ELSE [cur_doc EXCEPT !.text = absolute_range]

\* match cur_tag { "title" => .., "abstract" => .., "url" => .., _ => {} }
store_text(cur_doc, cur_tag, absolute_range) ==
    IF cur_tag = NameTitle THEN [cur_doc EXCEPT !.title = absolute_range]
    ELSE IF cur_tag = NameAbstract THEN [cur_doc EXCEPT !.text = absolute_range]
    ELSE IF cur_tag = NameUrl THEN [cur_doc EXCEPT !.url = absolute_range]
    ELSE cur_doc

\* the match arms that touch only the task's locals
parse_local(st, token) ==
    IF token.kind = "ElementStart" THEN [st EXCEPT !.cur_tag = token.local]
    ELSE IF token.kind = "Text"
    THEN [st EXCEPT !.cur_doc =
             store_text(st.cur_doc, st.cur_tag, absolute(st.base_offset, token))]
    ELSE IF token.kind = "ElementEndClose" THEN [st EXCEPT !.cur_tag = <<>>]
    ELSE st    \* ElementEnd::Open, other tokens, Err: nothing changes

\* the working record carried over to the next document as it is
reset_skipped(cur_doc) == cur_doc

\* cur_doc = DocumentRaw::default()
reset(cur_doc) == DefaultDocumentRaw

RECURSIVE parse_tokens(_, _)
parse_tokens(st, tokens) ==
    IF tokens = <<>> THEN st
    ELSE With(parse_local(st, Head(tokens)), LAMBDA st1 : parse_tokens(st1, Tail(tokens)))

is_doc_close(token) == token.kind = "ElementEndClose" /\ token.local = NameDoc

\* the tokenizer reported an error in this chunk
has_error(tokens) == \E k \in 1..Len(tokens) : tokens[k].kind = "Err"

\* parse_documents_vec's Err arm prints &file_contents.data[0..1024]: the
\* slice panics on a chunk shorter than that or cut inside a character there
err_context_len == 1024
err_context_ok(data) ==
    Len(data) >= err_context_len /\ is_char_boundary(data, err_context_len)

\* position of the next </doc> token, 0 when there is none
first_doc_close(tokens) ==
    LET hits == {k \in 1..Len(tokens) : is_doc_close(tokens[k])}
    IN  IF hits = {} THEN 0 ELSE Min(hits)

\* fetch_add as a plain load: the counter is read but not incremented
fetch_add_load_only(counter) == [old |-> counter, new |-> counter]

\* AtomicI32::fetch_add(1, SeqCst): one atomic step, wrapping
fetch_add(counter) ==
    [old |-> counter,
     new |-> IF counter = 2147483647 THEN -2147483647 - 1 ELSE counter + 1]

\* ------------------------------------------------------------ the scope
Backends == {"mapreduce", "pipeline_partitioned", "pipeline_shared"}

\* pool_size without the threads for the parser tasks
pool_size_without_parsers(p_threads, i_threads) == i_threads + 1

\* rayon::ThreadPoolBuilder::num_threads(parse_threads + index_threads + 1)
pool_size(p_threads, i_threads) == p_threads + i_threads + 1

\* tasks that occupy a pool thread (a task blocked in recv keeps its thread)
RunningTasks ==
    Cardinality({p \in DOMAIN parsers : parsers[p].status \in {"running", "flushed"}})
    + Cardinality({i \in DOMAIN indexers : indexers[i].status = "running"})

\* one pool thread runs the scope closure (the coordinator)
ThreadFree == RunningTasks + 1 < pool_size(parse_threads, index_threads)

\* live senders of the document channel: the tx_doc the coordinator holds
\* between spawn_*index_tasks and the return of parse_documents, and the
\* clone of every parser task that has not returned
DocSenders ==
    (IF pc = "parse_documents" THEN 1 ELSE 0)
    + Cardinality({p \in DOMAIN parsers : parsers[p].status # "done"})
DocChannelClosed == DocSenders = 0

\* the all-docs channel closes with the last parser task
AllDocsChannelClosed ==
    \A p \in DOMAIN parsers : parsers[p].status = "done"

\* the index channel closes with the last index_task
IndexChannelClosed ==
    \A i \in DOMAIN indexers : indexers[i].status = "done"

\* scope_joined without the join: the closure's return ends the scope
scope_not_joined(ps, ixs) == TRUE

\* pool.scope returns when the closure and every spawned task have returned
scope_joined(ps, ixs) ==
    /\ \A p \in DOMAIN ps : ps[p].status = "done"
    /\ \A i \in DOMAIN ixs : ixs[i].status = "done"

NewIndexer == [status |-> "queued", inverted_index |-> EmptyIndex,
               work |-> <<>>, miss |-> FALSE]

\* ----------------------------------------------------------------- inputs
Elem(name, inner) == <<60>> \o name \o <<62>> \o inner \o <<60, 47>> \o name \o <<62>>

\* <doc><abstract>a B c</abstract><url>uuu</url></doc> (51 bytes)
DocABC == Elem(NameDoc, Elem(NameAbstract, <<97, 32, 66, 32, 99>>)
                            \o Elem(NameUrl, <<117, 117, 117>>))
\* <doc><abstract>b</abstract></doc>                   (33 bytes)
DocB == Elem(NameDoc, Elem(NameAbstract, <<98>>))
\* <doc><title>t</title></doc>                         (27 bytes)
DocT == Elem(NameDoc, Elem(NameTitle, <<116>>))
\* <doc>xxx</doc>                                      (14 bytes)
DocX == Elem(NameDoc, <<120, 120, 120>>)
\* a newline between or after documents
Newline == <<10>>

BuildUnits == {DocABC, DocB, DocT, DocX, Newline}

\* corpora of whole <doc> elements and newlines
BuildCorpora == {Flatten(us) : us \in SeqsUpTo(BuildUnits, MaxDocs)}

\* chunker inputs: ASCII, 2-, 3- and 4-byte characters and the boundary tag
SplitUnits == {<<120>>, <<195, 169>>, <<226, 130, 172>>, <<240, 159, 152, 128>>,
               CloseDocTag}
SplitCorpora == {Flatten(us) : us \in SeqsUpTo(SplitUnits, MaxUnits)}

\* number of closed <doc> elements of a corpus
count_docs(contents) ==
    Cardinality({i \in 0..(Len(contents) - Len(CloseDocTag)) :
                    slice(contents, i, i + Len(CloseDocTag)) = CloseDocTag})

\* -------------------------------------------------------------- serializer
\* bincode::serialize / bincode::deserialize: fixed-width little-endian
\* integers, a u64 length before every string and collection, struct fields
\* in declaration order, trailing bytes ignored.
u64_width == 8
i32_width == 4

\* the `width` low bytes of n >= 0, least significant first
RECURSIVE le_bytes(_, _)
le_bytes(n, width) ==
    IF width = 0 THEN <<>> ELSE <<n % 256>> \o le_bytes(n \div 256, width - 1)

encode_u64(n) == le_bytes(n, u64_width)

\* two's complement
encode_i32(n) ==
    IF n >= 0 THEN le_bytes(n, i32_width)
    ELSE LET low == le_bytes(n + 2147483647 + 1, i32_width)
         IN  [low EXCEPT ![i32_width] = @ + 128]

\* every order a hash table may iterate its elements in
Orders(S) == {s \in [1..Cardinality(S) -> S] : \A i, j \in DOMAIN s : s[i] = s[j] => i = j}

\* an iteration order for the map's keys and one for each id set
HashOrders(inverted_index) ==
    {o \in [keys : Orders(DOMAIN inverted_index),
            ids : [DOMAIN inverted_index ->
                      UNION {Orders(inverted_index[t]) : t \in DOMAIN inverted_index}]] :
        \A t \in DOMAIN inverted_index : o.ids[t] \in Orders(inverted_index[t])}

encode_string(x) == encode_u64(Len(x)) \o x

encode_ids(ids) ==
    encode_u64(Len(ids)) \o Flatten([k \in DOMAIN ids |-> encode_i32(ids[k])])

\* bincode::serialize(&self.index): the entries in the table's iteration order
serialize_index(inverted_index, order) ==
    encode_u64(Len(order.keys))
    \o Flatten([k \in DOMAIN order.keys |->
                   encode_string(order.keys[k]) \o encode_ids(order.ids[order.keys[k]])])

encode_range(r) == encode_u64(r.start) \o encode_u64(r.end)

\* DocumentRaw: title, url, text, id
encode_document(d) ==
    encode_range(d.title) \o encode_range(d.url) \o encode_range(d.text) \o encode_i32(d.id)

\* bincode::serialize(&self.documents)
serialize_documents(docs) ==
    encode_u64(Len(docs)) \o Flatten([k \in DOMAIN docs |-> encode_document(docs[k])])

\* A decoder's result: the value read and the offset after it, or an error.
Decoded(v, pos) == [ok |-> TRUE, value |-> v, pos |-> pos]
DecodeErr == [ok |-> FALSE, value |-> <<>>, pos |-> 0]

\* A u64 read as usize. (Values of 2^31 and above are beyond the model's
\* integers and are reported as an error: as a length they exceed the input,
\* which bincode reports as an unexpected end of input.)
decode_u64(bytes, pos) ==
    IF pos + u64_width > Len(bytes) THEN DecodeErr
    ELSE LET b == slice(bytes, pos, pos + u64_width)
         IN  IF b[4] >= 128 \/ \E k \in 5..u64_width : b[k] # 0 THEN DecodeErr
             ELSE Decoded(b[1] + 256 * b[2] + 65536 * b[3] + 16777216 * b[4],
                          pos + u64_width)

decode_i32(bytes, pos) ==
    IF pos + i32_width > Len(bytes) THEN DecodeErr
    ELSE LET b == slice(bytes, pos, pos + i32_width)
             low == b[1] + 256 * b[2] + 65536 * b[3] + 16777216 * (b[4] % 128)
         IN  Decoded(IF b[4] >= 128 THEN low - 2147483647 - 1 ELSE low, pos + i32_width)

\* String: the length, the bytes, and a UTF-8 check
decode_string(bytes, pos) ==
    LET n == decode_u64(bytes, pos)
    IN  IF ~n.ok THEN DecodeErr
        ELSE IF n.pos + n.value > Len(bytes) THEN DecodeErr
        ELSE LET x == slice(bytes, n.pos, n.pos + n.value)
             IN  IF from_utf8_ok(x) THEN Decoded(x, n.pos + n.value) ELSE DecodeErr

\* the elements of a HashSet<i32>, count of them to go
RECURSIVE decode_ids(_, _, _, _)
decode_ids(bytes, pos, count, acc) ==
    IF count = 0 THEN Decoded(acc, pos)
    ELSE LET id == decode_i32(bytes, pos)
         IN  IF ~id.ok THEN DecodeErr
             ELSE decode_ids(bytes, id.pos, count - 1, acc \cup {id.value})

\* HashMap::insert: a key met again replaces the earlier value
map_insert(m, key, value) ==
    [t \in DOMAIN m \cup {key} |-> IF t = key THEN value ELSE m[t]]

\* the entries of the map, count of them to go
RECURSIVE decode_entries(_, _, _, _)
decode_entries(bytes, pos, count, acc) ==
    IF count = 0 THEN Decoded(acc, pos)
    ELSE LET key == decode_string(bytes, pos)
         IN  IF ~key.ok THEN DecodeErr
             ELSE LET n == decode_u64(bytes, key.pos)
                  IN  IF ~n.ok THEN DecodeErr
                      ELSE LET ids == decode_ids(bytes, n.pos, n.value, {})
                           IN  IF ~ids.ok THEN DecodeErr
                               ELSE decode_entries(bytes, ids.pos, count - 1,
                                        map_insert(acc, key.value, ids.value))

\* bincode::deserialize::<InvertedIndex>
deserialize_index(bytes) ==
    LET n == decode_u64(bytes, 0)
    IN  IF ~n.ok THEN DecodeErr
        ELSE decode_entries(bytes, n.pos, n.value, [t \in {} |-> {}])

decode_range(bytes, pos) ==
    LET lo == decode_u64(bytes, pos)
    IN  IF ~lo.ok THEN DecodeErr
        ELSE LET hi == decode_u64(bytes, lo.pos)
             IN  IF ~hi.ok THEN DecodeErr
                 ELSE Decoded([start |-> lo.value, end |-> hi.value], hi.pos)

\* decode_document that reads the id field and leaves the record's id at 0
decode_document_id_dropped(bytes, pos) ==
    LET title == decode_range(bytes, pos)
    IN  IF ~title.ok THEN DecodeErr
        ELSE LET url == decode_range(bytes, title.pos)
        IN  IF ~url.ok THEN DecodeErr
        ELSE LET text == decode_range(bytes, url.pos)
        IN  IF ~text.ok THEN DecodeErr
        ELSE LET id == decode_i32(bytes, text.pos)
        IN  IF ~id.ok THEN DecodeErr
        ELSE Decoded([title |-> title.value, url |-> url.value,
                      text |-> text.value, id |-> 0], id.pos)

decode_document(bytes, pos) ==
    LET title == decode_range(bytes, pos)
    IN  IF ~title.ok THEN DecodeErr
        ELSE LET url == decode_range(bytes, title.pos)
        IN  IF ~url.ok THEN DecodeErr
        ELSE LET text == decode_range(bytes, url.pos)
        IN  IF ~text.ok THEN DecodeErr
        ELSE LET id == decode_i32(bytes, text.pos)
        IN  IF ~id.ok THEN DecodeErr
        ELSE Decoded([title |-> title.value, url |-> url.value,
                      text |-> text.value, id |-> id.value], id.pos)

RECURSIVE decode_documents(_, _, _, _)
decode_documents(bytes, pos, count, acc) ==
    IF count = 0 THEN Decoded(acc, pos)
    ELSE LET d == decode_document(bytes, pos)
         IN  IF ~d.ok THEN DecodeErr
             ELSE decode_documents(bytes, d.pos, count - 1, Append(acc, d.value))

\* bincode::deserialize::<DocumentIndex>
deserialize_documents(bytes) ==
    LET n == decode_u64(bytes, 0)
    IN  IF ~n.ok THEN DecodeErr
        ELSE decode_documents(bytes, n.pos, n.value, <<>>)

\* ------------------------------------------------------------------ search
\* full_document.from_utf8_unchecked(range): the byte range must lie in the
\* corpus, nothing else is checked
range_in(full_contents, r) == r.start <= r.end /\ r.end <= Len(full_contents)

\* DocumentRaw::to_document
to_document(d, full_contents) ==
    [title |-> text_of(full_contents, d.title),
     url |-> text_of(full_contents, d.url),
     text |-> text_of(full_contents, d.text),
     id |-> d.id]

\* self.documents[*id as usize].to_document(..) does not panic
can_match(docs, full_contents, id) ==
    /\ id >= 0 /\ id < Len(docs)
    /\ range_in(full_contents, docs[id + 1].title)
    /\ range_in(full_contents, docs[id + 1].url)
    /\ range_in(full_contents, docs[id + 1].text)

\* SearchResults; matches follow the id set's iteration order, which is
\* unspecified: they are kept as a set
SearchResults(term, docs, full_contents, ids) ==
    [term |-> term,
     matches |-> {to_document(docs[id + 1], full_contents) : id \in ids}]

\* search_terms that skips a term it has already reported
RECURSIVE search_terms_once(_, _, _, _, _)
search_terms_once(inverted_index, docs, full_contents, terms, found) ==
    IF terms = <<>> THEN Ok(found)
    ELSE LET term == Head(terms)
         IN  IF /\ term \in DOMAIN inverted_index
                /\ \A k \in DOMAIN found : found[k].term # term
             THEN IF \A id \in inverted_index[term] : can_match(docs, full_contents, id)
                  THEN search_terms_once(inverted_index, docs, full_contents, Tail(terms),
                           Append(found, SearchResults(term, docs, full_contents,
                                                       inverted_index[term])))
                  ELSE Panic("index_out_of_bounds")
             ELSE search_terms_once(inverted_index, docs, full_contents, Tail(terms), found)

\* the `for term in analyze(search_term)` loop
RECURSIVE search_terms(_, _, _, _, _)
search_terms(inverted_index, docs, full_contents, terms, found) ==
    IF terms = <<>> THEN Ok(found)
    ELSE LET term == Head(terms)
         IN  IF term \in DOMAIN inverted_index
             THEN IF \A id \in inverted_index[term] : can_match(docs, full_contents, id)
                  THEN search_terms(inverted_index, docs, full_contents, Tail(terms),
                           Append(found, SearchResults(term, docs, full_contents,
                                                       inverted_index[term])))
                  ELSE Panic("index_out_of_bounds")
             ELSE search_terms(inverted_index, docs, full_contents, Tail(terms), found)

\* DocumentIndexer::search: the `for search_term in all_terms` loop
RECURSIVE search(_, _, _, _, _)
search(inverted_index, docs, full_contents, all_terms, found) ==
    IF all_terms = <<>> THEN Ok(found)
    ELSE LET r == search_terms(inverted_index, docs, full_contents,
                               analyze(Head(all_terms)), found)
         IN  IF r.panicked THEN r
             ELSE search(inverted_index, docs, full_contents, Tail(all_terms), r.value)

\* ------------------------------------------------------------------ files
\* a path that names nothing, and a file holding bytes
NoFile == [exists |-> FALSE, bytes |-> <<>>]
File(bytes) == [exists |-> TRUE, bytes |-> bytes]

\* The directory of the corpus path P: P itself ("present" holds
\* file_contents, "empty" has length 0, "absent"), P.idx, P.dcm and the two
\* temporary names write_index_to_path uses.
Disk(corpus, idx, dcm) ==
    [corpus |-> corpus, idx |-> idx, dcm |-> dcm, idx_tmp |-> NoFile, dcm_tmp |-> NoFile]

\* no SerializedIndex has been returned
NoSerializedIndex ==
    [loaded |-> FALSE, inverted_index |-> <<>>, documents |-> <<>>, file_contents |-> <<>>]

\* RayonIndexer::new(): empty index, empty table, empty corpus bytes
NewRayonIndexer ==
    [pc |-> "new", index |-> [t \in {} |-> {}], documents |-> <<>>, full_contents |-> <<>>]

\* nothing has been written, loaded or searched yet
NoCacheActivity ==
    /\ writer = "idle"
    /\ loader = "idle"
    /\ serialized = NoSerializedIndex
    /\ fresh = NewRayonIndexer
    /\ query = <<>>
    /\ results = [target |-> "none", panicked |-> FALSE, value |-> <<>>, why |-> ""]

\* no front-end binary is running
NoFrontEnd == index_files = <<>> /\ appended = 0

\* the state after ThreadPoolIndexer::new_hashmap / new_dashmap / RayonIndexer::new
NewIndexerState ==
    /\ panic = ""
    /\ pc = "new"
    /\ contents_split = <<>>
    /\ cur_id = 0
    /\ parsers = <<>>
    /\ indexers = <<>>
    /\ rx_doc = <<>>
    /\ rx_index = <<>>
    /\ rx_alldocs = <<>>
    /\ shared_index = EmptyIndex
    /\ joined_index = EmptyIndex
    /\ partials = <<>>
    /\ documents = <<>>
    /\ index = EmptyIndex

Init ==
    /\ backend \in Backends
    /\ file_contents \in BuildCorpora
    /\ parse_threads \in 1..MaxParse
    /\ index_threads \in (IF backend = "mapreduce" THEN {parse_threads} ELSE 1..MaxIndex)
    /\ NewIndexerState
    /\ disk = Disk("present", NoFile, NoFile)
    /\ NoCacheActivity
    /\ NoFrontEnd

InitSplit ==
    /\ backend = "pipeline_partitioned"
    /\ file_contents \in SplitCorpora
    /\ parse_threads \in 1..MaxChunks
    /\ index_threads = 1
    /\ NewIndexerState
    /\ disk = Disk("present", NoFile, NoFile)
    /\ NoCacheActivity
    /\ NoFrontEnd

\* ------------------------------------------------ build_from_file_contents
\* load_from_path runs on the thread that builds: no build starts while it
\* is between two of its reads
LoaderAtRest == loader \notin {"mapped", "read_idx"}

\* split_contents(&file_contents, "</doc>", n); a panic ends the build
Split ==
    /\ pc = "new" /\ LoaderAtRest
    /\ LET r == split_contents(file_contents, CloseDocTag, parse_threads)
       IN  IF r.panicked
           THEN pc' = "panicked" /\ contents_split' = <<>> /\ panic' = r.why
           ELSE pc' = "split" /\ contents_split' = r.value /\ panic' = panic
    /\ UNCHANGED <<cache, backend, front, file_contents, parse_threads, index_threads, cur_id,
                   parsers, indexers, rx_doc, rx_index, rx_alldocs, shared_index,
                   joined_index, partials, documents, index>>

\* ------------------------------------------------------ pipeline: spawning
\* spawn_index_tasks: index_threads index_task closures are spawned
SpawnIndexTasks ==
    /\ pc = "split" /\ backend = "pipeline_partitioned"
    /\ indexers' = [i \in 1..index_threads |-> NewIndexer]
    /\ pc' = "parse_documents"
    /\ UNCHANGED <<panic, cache, backend, front, file_contents, parse_threads, index_threads,
                   contents_split, cur_id, parsers, rx_doc, rx_index, rx_alldocs,
                   shared_index, joined_index, partials, documents, index>>

\* spawn_dashmap_index_tasks, after DashMapInvertedIndex::with_capacity
SpawnDashmapIndexTasks ==
    /\ pc = "split" /\ backend = "pipeline_shared"
    /\ indexers' = [i \in 1..index_threads |-> NewIndexer]
    /\ shared_index' = EmptyIndex
    /\ pc' = "parse_documents"
    /\ UNCHANGED <<panic, cache, backend, front, file_contents, parse_threads, index_threads,
                   contents_split, cur_id, parsers, rx_doc, rx_index, rx_alldocs,
                   joined_index, partials, documents, index>>

\* parse_documents: one parse_task per chunk is spawned; tx_doc and
\* tx_alldocs themselves are dropped on return
ParseDocuments ==
    /\ pc = "parse_documents"
    /\ parsers' = [p \in 1..Len(contents_split) |-> NewParser(contents_split[p], "queued")]
    /\ pc' = IF backend = "pipeline_partitioned" THEN "merge_first" ELSE "collect_first"
    /\ UNCHANGED <<panic, cache, backend, front, file_contents, parse_threads, index_threads,
                   contents_split, cur_id, indexers, rx_doc, rx_index, rx_alldocs,
                   shared_index, joined_index, partials, documents, index>>

\* ------------------------------------------------------ pipeline: parse_task
\* a free pool thread picks the task up; the tokenizer is created
StartParser(p) ==
    /\ backend # "mapreduce"
    /\ p \in DOMAIN parsers /\ parsers[p].status = "queued"
    /\ ThreadFree
    /\ parsers' = [parsers EXCEPT ![p].status = "running",
                                  ![p].tokens = Tokenizer(parsers[p].data)]
    /\ UNCHANGED <<panic, cache, backend, front, file_contents, parse_threads, index_threads, pc,
                   contents_split, cur_id, indexers, rx_doc, rx_index, rx_alldocs,
                   shared_index, joined_index, partials, documents, index>>

\* parse_task's token loop up to and including the next </doc>: the id is
\* fetched, the record pushed, and a full batch sent
ParseTask(p) ==
    /\ backend # "mapreduce"
    /\ p \in DOMAIN parsers /\ parsers[p].status = "running"
    /\ parsers[p].tokens # <<>>
    /\ LET st == parsers[p]
           k == first_doc_close(st.tokens)
       IN  IF k = 0
           THEN /\ parsers' = [parsers EXCEPT ![p] =
                       [parse_tokens(st, st.tokens) EXCEPT !.tokens = <<>>]]
                /\ UNCHANGED <<cur_id, rx_doc>>
           ELSE LET st1 == parse_tokens(st, SubSeq(st.tokens, 1, k))
                    fetched == fetch_add(cur_id)
                    cur_doc == [st1.cur_doc EXCEPT !.id = fetched.old]
                    chunk == Append(st1.chunk, cur_doc)
                    full == batch_full(chunk)
                IN  /\ cur_id' = fetched.new
                    /\ rx_doc' = IF full THEN Append(rx_doc, chunk) ELSE rx_doc
                    /\ parsers' = [parsers EXCEPT ![p] =
                           [st1 EXCEPT !.tokens = SubSeq(st.tokens, k + 1, Len(st.tokens)),
                                       !.cur_doc = reset(st1.cur_doc),
                                       !.chunk = IF full THEN <<>> ELSE chunk,
                                       !.all_docs = Append(@, cur_doc)]]
    /\ UNCHANGED <<panic, cache, backend, front, file_contents, parse_threads, index_threads, pc,
                   contents_split, indexers, rx_index, rx_alldocs, shared_index,
                   joined_index, partials, documents, index>>

\* tx_doc.send(chunk): the last, partial batch
ParseFlush(p) ==
    /\ backend # "mapreduce"
    /\ p \in DOMAIN parsers /\ parsers[p].status = "running"
    /\ parsers[p].tokens = <<>>
    /\ rx_doc' = Append(rx_doc, parsers[p].chunk)
    /\ parsers' = [parsers EXCEPT ![p].status = "flushed", ![p].chunk = <<>>]
    /\ UNCHANGED <<panic, cache, backend, front, file_contents, parse_threads, index_threads, pc,
                   contents_split, cur_id, indexers, rx_index, rx_alldocs,
                   shared_index, joined_index, partials, documents, index>>

\* tx_alldocs.send(all_docs) and return: both senders are dropped
ParseExit(p) ==
    /\ backend # "mapreduce"
    /\ p \in DOMAIN parsers /\ parsers[p].status = "flushed"
    /\ rx_alldocs' = Append(rx_alldocs, parsers[p].all_docs)
    /\ parsers' = [parsers EXCEPT ![p].status = "done"]
    /\ UNCHANGED <<panic, cache, backend, front, file_contents, parse_threads, index_threads, pc,
                   contents_split, cur_id, indexers, rx_doc, rx_index,
                   shared_index, joined_index, partials, documents, index>>

\* ------------------------------------------- pipeline: index_task (HashMap)
StartIndexer(i) ==
    /\ i \in DOMAIN indexers /\ indexers[i].status = "queued"
    /\ ThreadFree
    /\ indexers' = [indexers EXCEPT ![i].status = "running"]
    /\ UNCHANGED <<panic, cache, backend, front, file_contents, parse_threads, index_threads, pc,
                   contents_split, cur_id, parsers, rx_doc, rx_index, rx_alldocs,
                   shared_index, joined_index, partials, documents, index>>

\* IndexTaskRecv on a channel that hands a batch to every receiver: the batch
\* stays in the channel
IndexTaskRecvBroadcast(i) ==
    /\ backend = "pipeline_partitioned"
    /\ i \in DOMAIN indexers /\ indexers[i].status = "running"
    /\ rx_doc # <<>>
    /\ rx_doc' = rx_doc
    /\ indexers' = [indexers EXCEPT ![i].inverted_index =
                       index_docs(@, Head(rx_doc), file_contents)]
    /\ UNCHANGED <<panic, cache, backend, front, file_contents, parse_threads, index_threads, pc,
                   contents_split, cur_id, parsers, rx_index, rx_alldocs,
                   shared_index, joined_index, partials, documents, index>>

\* `for chunk in rx_doc`: one batch is received and indexed into the task's
\* own map
IndexTaskRecv(i) ==
    /\ backend = "pipeline_partitioned"
    /\ i \in DOMAIN indexers /\ indexers[i].status = "running"
    /\ rx_doc # <<>>
    /\ rx_doc' = Tail(rx_doc)
    /\ indexers' = [indexers EXCEPT ![i].inverted_index =
                       index_docs(@, Head(rx_doc), file_contents)]
    /\ UNCHANGED <<panic, cache, backend, front, file_contents, parse_threads, index_threads, pc,
                   contents_split, cur_id, parsers, rx_index, rx_alldocs,
                   shared_index, joined_index, partials, documents, index>>

\* IndexTaskSend that does not wait for the channel to close: the task sends
\* its map as soon as it finds the channel empty
IndexTaskSendEarly(i) ==
    /\ backend = "pipeline_partitioned"
    /\ i \in DOMAIN indexers /\ indexers[i].status = "running"
    /\ rx_doc = <<>>
    /\ rx_index' = Append(rx_index, indexers[i].inverted_index)
    /\ indexers' = [indexers EXCEPT ![i].status = "done"]
    /\ UNCHANGED <<panic, cache, backend, front, file_contents, parse_threads, index_threads, pc,
                   contents_split, cur_id, parsers, rx_doc, rx_alldocs,
                   shared_index, joined_index, partials, documents, index>>

\* the channel is empty and closed: tx_index.send(inverted_index), return
IndexTaskSend(i) ==
    /\ backend = "pipeline_partitioned"
    /\ i \in DOMAIN indexers /\ indexers[i].status = "running"
    /\ rx_doc = <<>> /\ DocChannelClosed
    /\ rx_index' = Append(rx_index, indexers[i].inverted_index)
    /\ indexers' = [indexers EXCEPT ![i].status = "done"]
    /\ UNCHANGED <<panic, cache, backend, front, file_contents, parse_threads, index_threads, pc,
                   contents_split, cur_id, parsers, rx_doc, rx_alldocs,
                   shared_index, joined_index, partials, documents, index>>

\* ------------------------------------- pipeline: dashmap_index_task (DashMap)
\* the (token, id) insertions a batch asks for, in loop order
RECURSIVE batch_work(_, _)
batch_work(chunk, full_contents) ==
    IF chunk = <<>> THEN <<>>
    ELSE LET d == Head(chunk)
             tokens == analyze(text_of(full_contents, d.text))
         IN  [k \in 1..Len(tokens) |-> [token |-> tokens[k], id |-> d.id]]
                 \o batch_work(Tail(chunk), full_contents)

\* `for chunk in rx_doc`: one batch is received
DashRecv(i) ==
    /\ backend = "pipeline_shared"
    /\ i \in DOMAIN indexers /\ indexers[i].status = "running"
    /\ indexers[i].work = <<>>
    /\ rx_doc # <<>>
    /\ rx_doc' = Tail(rx_doc)
    /\ indexers' = [indexers EXCEPT ![i].work = batch_work(Head(rx_doc), file_contents)]
    /\ UNCHANGED <<panic, cache, backend, front, file_contents, parse_threads, index_threads, pc,
                   contents_split, cur_id, parsers, rx_index, rx_alldocs,
                   shared_index, joined_index, partials, documents, index>>

\* inverted_index.get_mut(&token): Some(set) inserts the id under the entry's
\* lock; None releases the lock and leaves the map as it is
DashGetMut(i) ==
    /\ backend = "pipeline_shared"
    /\ i \in DOMAIN indexers /\ indexers[i].status = "running"
    /\ indexers[i].work # <<>> /\ ~indexers[i].miss
    /\ LET w == Head(indexers[i].work)
       IN  IF w.token \in DOMAIN shared_index
           THEN /\ shared_index' = [shared_index EXCEPT ![w.token] = @ \cup {w.id}]
                /\ indexers' = [indexers EXCEPT ![i].work = Tail(@)]
           ELSE /\ shared_index' = shared_index
                /\ indexers' = [indexers EXCEPT ![i].miss = TRUE]
    /\ UNCHANGED <<panic, cache, backend, front, file_contents, parse_threads, index_threads, pc,
                   contents_split, cur_id, parsers, rx_doc, rx_index, rx_alldocs,
                   joined_index, partials, documents, index>>

\* DashMap::insert(token, set) with set = {id}: the entry is created, or the
\* value another task stored meanwhile is replaced
dash_insert(map, token, id) ==
    [t \in DOMAIN map \cup {token} |-> IF t = token THEN {id} ELSE map[t]]

\* the None arm: a new DashSet holding the id is inserted under the token
DashInsert(i) ==
    /\ backend = "pipeline_shared"
    /\ i \in DOMAIN indexers /\ indexers[i].status = "running"
    /\ indexers[i].work # <<>> /\ indexers[i].miss
    /\ LET w == Head(indexers[i].work)
       IN  shared_index' = dash_insert(shared_index, w.token, w.id)
    /\ indexers' = [indexers EXCEPT ![i].work = Tail(@), ![i].miss = FALSE]
    /\ UNCHANGED <<panic, cache, backend, front, file_contents, parse_threads, index_threads, pc,
                   contents_split, cur_id, parsers, rx_doc, rx_index, rx_alldocs,
                   joined_index, partials, documents, index>>

\* the channel is empty and closed: the task returns
DashExit(i) ==
    /\ backend = "pipeline_shared"
    /\ i \in DOMAIN indexers /\ indexers[i].status = "running"
    /\ indexers[i].work = <<>>
    /\ rx_doc = <<>> /\ DocChannelClosed
    /\ indexers' = [indexers EXCEPT ![i].status = "done"]
    /\ UNCHANGED <<panic, cache, backend, front, file_contents, parse_threads, index_threads, pc,
                   contents_split, cur_id, parsers, rx_doc, rx_index, rx_alldocs,
                   shared_index, joined_index, partials, documents, index>>

\* ------------------------------------------------- pipeline: the coordinator
\* rx_index_iter.next().unwrap(): blocks for the first partial index; panics
\* when the channel closes without one
MergeFirst ==
    /\ pc = "merge_first"
    /\ rx_index # <<>> \/ IndexChannelClosed
    /\ IF rx_index # <<>>
       THEN /\ joined_index' = Head(rx_index)
            /\ rx_index' = Tail(rx_index)
            /\ pc' = "merge"
            /\ panic' = panic
       ELSE /\ pc' = "panicked"
            /\ panic' = "unwrap"
            /\ UNCHANGED <<joined_index, rx_index>>
    /\ UNCHANGED <<cache, backend, front, file_contents, parse_threads, index_threads,
                   contents_split, cur_id, parsers, indexers, rx_doc, rx_alldocs,
                   shared_index, partials, documents, index>>

\* `for mut thread_index in rx_index_iter`: merge one more partial index
MergeNext ==
    /\ pc = "merge"
    /\ rx_index # <<>>
    /\ joined_index' = merge_index(joined_index, Head(rx_index))
    /\ rx_index' = Tail(rx_index)
    /\ UNCHANGED <<panic, cache, backend, front, file_contents, parse_threads, index_threads, pc,
                   contents_split, cur_id, parsers, indexers, rx_doc, rx_alldocs,
                   shared_index, partials, documents, index>>

\* the index channel is empty and closed: the merge loop ends
MergeDone ==
    /\ pc = "merge"
    /\ rx_index = <<>> /\ IndexChannelClosed
    /\ pc' = "collect_first"
    /\ UNCHANGED <<panic, cache, backend, front, file_contents, parse_threads, index_threads,
                   contents_split, cur_id, parsers, indexers, rx_doc, rx_index,
                   rx_alldocs, shared_index, joined_index, partials, documents, index>>

\* all_docs_iter.next().unwrap()
CollectFirst ==
    /\ pc = "collect_first"
    /\ rx_alldocs # <<>> \/ AllDocsChannelClosed
    /\ IF rx_alldocs # <<>>
       THEN /\ documents' = Head(rx_alldocs)
            /\ rx_alldocs' = Tail(rx_alldocs)
            /\ pc' = "collect"
            /\ panic' = panic
       ELSE /\ pc' = "panicked"
            /\ panic' = "unwrap"
            /\ UNCHANGED <<documents, rx_alldocs>>
    /\ UNCHANGED <<cache, backend, front, file_contents, parse_threads, index_threads,
                   contents_split, cur_id, parsers, indexers, rx_doc, rx_index,
                   shared_index, joined_index, partials, index>>

\* `for docs in all_docs_iter`: documents.extend(docs)
CollectNext ==
    /\ pc = "collect"
    /\ rx_alldocs # <<>>
    /\ documents' = documents \o Head(rx_alldocs)
    /\ rx_alldocs' = Tail(rx_alldocs)
    /\ UNCHANGED <<panic, cache, backend, front, file_contents, parse_threads, index_threads, pc,
                   contents_split, cur_id, parsers, indexers, rx_doc, rx_index,
                   shared_index, joined_index, partials, index>>

\* the all-docs channel is empty and closed: the closure returns
CollectDone ==
    /\ pc = "collect"
    /\ rx_alldocs = <<>> /\ AllDocsChannelClosed
    /\ pc' = "scope_end"
    /\ UNCHANGED <<panic, cache, backend, front, file_contents, parse_threads, index_threads,
                   contents_split, cur_id, parsers, indexers, rx_doc, rx_index,
                   rx_alldocs, shared_index, joined_index, partials, documents, index>>

\* pool.scope returns once every spawned task has returned; then
\* self.index and self.documents are assigned and the table is sorted
FinishPipeline ==
    /\ pc = "scope_end"
    /\ scope_joined(parsers, indexers)
    /\ index' = IF backend = "pipeline_partitioned" THEN joined_index ELSE shared_index
    /\ documents' = sort_by_id(documents)
    /\ pc' = "built"
    /\ UNCHANGED <<panic, cache, backend, front, file_contents, parse_threads, index_threads,
                   contents_split, cur_id, parsers, indexers, rx_doc, rx_index,
                   rx_alldocs, shared_index, joined_index, partials>>

\* ------------------------------------------------------ map/reduce build
\* contents_split.par_iter().map(|x| self.parse_documents_vec(x)): one
\* parse per chunk, run in parallel
MapParse ==
    /\ pc = "split" /\ backend = "mapreduce"
    /\ parsers' = [p \in 1..Len(contents_split) |->
                      [NewParser(contents_split[p], "running")
                          EXCEPT !.tokens = Tokenizer(contents_split[p].data)]]
    /\ pc' = "map_parse"
    /\ UNCHANGED <<panic, cache, backend, front, file_contents, parse_threads, index_threads,
                   contents_split, cur_id, indexers, rx_doc, rx_index, rx_alldocs,
                   shared_index, joined_index, partials, documents, index>>

\* parse_documents_vec's token loop up to and including the next </doc>
ParseDocumentsVec(p) ==
    /\ backend = "mapreduce"
    /\ p \in DOMAIN parsers /\ parsers[p].status = "running"
    /\ parsers[p].tokens # <<>>
    /\ LET st == parsers[p]
           k == first_doc_close(st.tokens)
       IN  IF k = 0
           THEN /\ parsers' = [parsers EXCEPT ![p] =
                       [parse_tokens(st, st.tokens) EXCEPT !.tokens = <<>>]]
                /\ IF has_error(st.tokens) /\ ~err_context_ok(st.data)
                   THEN \* the panic unwinds through collect()
                        pc' = "panicked" /\ panic' = "slice_end"
                   ELSE pc' = pc /\ panic' = panic
                /\ UNCHANGED cur_id
           ELSE LET st1 == parse_tokens(st, SubSeq(st.tokens, 1, k))
                    fetched == fetch_add(cur_id)
                    cur_doc == [st1.cur_doc EXCEPT !.id = fetched.old]
                IN  /\ cur_id' = fetched.new
                    /\ parsers' = [parsers EXCEPT ![p] =
                           [st1 EXCEPT !.tokens = SubSeq(st.tokens, k + 1, Len(st.tokens)),
                                       !.cur_doc = reset(st1.cur_doc),
                                       !.all_docs = Append(@, cur_doc)]]
                    /\ UNCHANGED <<pc, panic>>
    /\ UNCHANGED <<cache, backend, front, file_contents, parse_threads, index_threads,
                   contents_split, indexers, rx_doc, rx_index, rx_alldocs,
                   shared_index, joined_index, partials, documents, index>>

\* parse_documents_vec returns docs
ParseDocumentsVecReturn(p) ==
    /\ backend = "mapreduce"
    /\ p \in DOMAIN parsers /\ parsers[p].status = "running"
    /\ parsers[p].tokens = <<>>
    /\ parsers' = [parsers EXCEPT ![p].status = "done"]
    /\ UNCHANGED <<panic, cache, backend, front, file_contents, parse_threads, index_threads, pc,
                   contents_split, cur_id, indexers, rx_doc, rx_index, rx_alldocs,
                   shared_index, joined_index, partials, documents, index>>

\* .flatten().collect() keeps the chunks' order; self.documents.sort()
MapCollect ==
    /\ pc = "map_parse"
    /\ \A p \in DOMAIN parsers : parsers[p].status = "done"
    /\ documents' = sort_by_id(Flatten([p \in DOMAIN parsers |-> parsers[p].all_docs]))
    /\ pc' = "map_index"
    /\ UNCHANGED <<panic, cache, backend, front, file_contents, parse_threads, index_threads,
                   contents_split, cur_id, parsers, indexers, rx_doc, rx_index,
                   rx_alldocs, shared_index, joined_index, partials, index>>

\* the slices of full size only, a shorter remainder left out (chunks_exact)
par_chunks_exact(docs, size) ==
    [k \in 1..(Len(docs) \div size) |-> SubSeq(docs, (k - 1) * size + 1, k * size)]

\* slice::par_chunks(size): consecutive slices of `size` records, the last
\* one possibly shorter
par_chunks(docs, size) ==
    [k \in 1..((Len(docs) + size - 1) \div size) |->
        SubSeq(docs, (k - 1) * size + 1,
               IF k * size < Len(docs) THEN k * size ELSE Len(docs))]

\* std::cmp::max(self.documents.len() / num_threads, 1)
slice_size(num_docs, num_threads) ==
    IF num_docs \div num_threads > 1 THEN num_docs \div num_threads ELSE 1

\* .par_chunks(..).map(|d| index_docs_index_only(&file_contents, d, ..))
MapIndex ==
    /\ pc = "map_index"
    /\ LET slices == par_chunks(documents, slice_size(Len(documents), parse_threads))
       IN  partials' = [k \in DOMAIN slices |->
                           index_docs_index_only(file_contents, slices[k])]
    /\ pc' = "reduce"
    /\ UNCHANGED <<panic, cache, backend, front, file_contents, parse_threads, index_threads,
                   contents_split, cur_id, parsers, indexers, rx_doc, rx_index,
                   rx_alldocs, shared_index, joined_index, documents, index>>

\* .reduce(identity, op): two neighbouring partial results are merged, the
\* left one absorbing the right one; which pair comes next is up to rayon
Reduce(k) ==
    /\ pc = "reduce"
    /\ k \in 1..(Len(partials) - 1)
    /\ partials' = SubSeq(partials, 1, k - 1)
                     \o <<merge_index(partials[k], partials[k + 1])>>
                     \o SubSeq(partials, k + 2, Len(partials))
    /\ UNCHANGED <<panic, cache, backend, front, file_contents, parse_threads, index_threads, pc,
                   contents_split, cur_id, parsers, indexers, rx_doc, rx_index,
                   rx_alldocs, shared_index, joined_index, documents, index>>

\* the reduce is done (no partial result: the identity, an empty map);
\* self.index is assigned
ReduceDone ==
    /\ pc = "reduce"
    /\ Len(partials) <= 1
    /\ index' = IF partials = <<>> THEN EmptyIndex ELSE partials[1]
    /\ pc' = "built"
    /\ UNCHANGED <<panic, cache, backend, front, file_contents, parse_threads, index_threads,
                   contents_split, cur_id, parsers, indexers, rx_doc, rx_index,
                   rx_alldocs, shared_index, joined_index, partials, documents>>

\* parse_documents_vec run to its end by one thread, ids counting from counter
RECURSIVE parse_documents_vec(_, _)
parse_documents_vec(st, counter) ==
    With(first_doc_close(st.tokens), LAMBDA k :
        IF k = 0 THEN parse_tokens(st, st.tokens).all_docs
        ELSE With(parse_tokens(st, SubSeq(st.tokens, 1, k)), LAMBDA st1 :
                 With([st1 EXCEPT !.tokens = SubSeq(st.tokens, k + 1, Len(st.tokens)),
                                  !.cur_doc = reset(st1.cur_doc),
                                  !.all_docs = Append(@, [st1.cur_doc EXCEPT
                                                             !.id = fetch_add(counter).old])],
                      LAMBDA st2 : parse_documents_vec(st2, fetch_add(counter).new))))

\* RayonIndexer::build_from_file_contents on one thread (num_cpus = 1): one
\* chunk holding the corpus, ids in document order
sequential_documents(contents) ==
    sort_by_id(parse_documents_vec(
        [NewParser(ContentsSplit(0, contents), "running")
            EXCEPT !.tokens = Tokenizer(contents)], 0))

sequential_index(contents) ==
    index_docs_index_only(contents, sequential_documents(contents))

\* ------------------------------------------------------------ cache inputs
\* corpora of the documents that have an abstract
CacheUnits == {DocABC, DocB}
CacheCorpora == {Flatten(us) : us \in SeqsUpTo(CacheUnits, MaxDocs)}

\* The cache an earlier run left behind: it was written from a single-thread
\* build of an older version of the corpus.
OldCorpus == DocB
OldIdx ==
    File(serialize_index(sequential_index(OldCorpus),
                         CHOOSE o \in HashOrders(sequential_index(OldCorpus)) : TRUE))
OldDcm == File(serialize_documents(sequential_documents(OldCorpus)))

\* a file that lost its last byte
Truncated(file) == File(SubSeq(file.bytes, 1, Len(file.bytes) - 1))

\* the directories a run may find
Disks ==
    {Disk("present", NoFile, NoFile),
     Disk("present", OldIdx, OldDcm),
     Disk("present", OldIdx, NoFile),
     Disk("present", NoFile, OldDcm),
     Disk("present", OldIdx, Truncated(OldDcm)),
     Disk("present", Truncated(OldIdx), OldDcm),
     Disk("absent", OldIdx, OldDcm),
     Disk("empty", OldIdx, OldDcm)}

\* a fresh RayonIndexer, the corpus it is given, and the directory
InitCache ==
    /\ backend = "mapreduce"
    /\ file_contents \in CacheCorpora
    /\ parse_threads \in 1..MaxParse
    /\ index_threads = parse_threads
    /\ NewIndexerState
    /\ disk \in Disks
    /\ NoCacheActivity
    /\ NoFrontEnd

\* ------------------------------------------------------- write_index_to_path
\* How a file-system call ends: it succeeds, it returns an io::Error, or the
\* process dies in it.
Outcomes == {"ok", "err", "crash"}

\* stopped for a caller that is told Ok(()) whatever happened
stopped_as_ok(outcome) == "returned_ok"

\* where a step that did not succeed leaves write_index_to_path
stopped(outcome) == IF outcome = "err" THEN "returned_err" ELSE "crashed"

\* what an interrupted write_all may leave in the file: a proper prefix
MaxCuts == 2
PartialCuts(bytes) ==
    {(k * Len(bytes)) \div MaxCuts : k \in 0..(MaxCuts - 1)} \cap 0..(Len(bytes) - 1)

\* Write::write_all on a file just opened: the bytes go over the file's
\* content from offset 0, what the file holds beyond them stays
write_all(file, bytes) ==
    File(bytes \o SubSeq(file.bytes, Len(bytes) + 1, Len(file.bytes)))

\* base_path.idx.tmp opened for writing and created if missing, the bytes of
\* an existing file kept
CreateIdxTmpNoTruncate(outcome) ==
    /\ pc = "built" /\ backend = "mapreduce"
    /\ writer = "idle"
    /\ IF outcome = "ok"
       THEN /\ disk' = [disk EXCEPT !.idx_tmp = IF @.exists THEN @ ELSE File(<<>>)]
            /\ writer' = "created_idx"
       ELSE /\ disk' = disk
            /\ writer' = stopped(outcome)
    /\ UNCHANGED <<panic, backend, front, file_contents, parse_threads, index_threads, pc,
                   contents_split, cur_id, parsers, indexers, rx_doc, rx_index,
                   rx_alldocs, shared_index, joined_index, partials, documents, index,
                   loader, serialized, fresh, query, results>>

\* File::create(base_path.idx.tmp): the file is created or truncated
CreateIdxTmp(outcome) ==
    /\ pc = "built" /\ backend = "mapreduce"
    /\ writer = "idle"
    /\ IF outcome = "ok"
       THEN /\ disk' = [disk EXCEPT !.idx_tmp = File(<<>>)]
            /\ writer' = "created_idx"
       ELSE /\ disk' = disk
            /\ writer' = stopped(outcome)
    /\ UNCHANGED <<panic, backend, front, file_contents, parse_threads, index_threads, pc,
                   contents_split, cur_id, parsers, indexers, rx_doc, rx_index,
                   rx_alldocs, shared_index, joined_index, partials, documents, index,
                   loader, serialized, fresh, query, results>>

\* File::create(base_path.dcm.tmp)
CreateDcmTmp(outcome) ==
    /\ writer = "created_idx"
    /\ IF outcome = "ok"
       THEN /\ disk' = [disk EXCEPT !.dcm_tmp = File(<<>>)]
            /\ writer' = "created_dcm"
       ELSE /\ disk' = disk
            /\ writer' = stopped(outcome)
    /\ UNCHANGED <<panic, backend, front, file_contents, parse_threads, index_threads, pc,
                   contents_split, cur_id, parsers, indexers, rx_doc, rx_index,
                   rx_alldocs, shared_index, joined_index, partials, documents, index,
                   loader, serialized, fresh, query, results>>

\* WriteIdxTmp writing to base_path.idx itself instead of the temporary file
WriteIdxInPlace(outcome) ==
    /\ writer = "created_dcm"
    /\ \E order \in HashOrders(index) :
          LET bytes == serialize_index(index, order)
          IN  IF outcome = "ok"
              THEN /\ disk' = [disk EXCEPT !.idx = File(bytes)]
                   /\ writer' = "wrote_idx"
              ELSE /\ \E cut \in PartialCuts(bytes) :
                         disk' = [disk EXCEPT !.idx = File(SubSeq(bytes, 1, cut))]
                   /\ writer' = stopped(outcome)
    /\ UNCHANGED <<panic, backend, front, file_contents, parse_threads, index_threads, pc,
                   contents_split, cur_id, parsers, indexers, rx_doc, rx_index,
                   rx_alldocs, shared_index, joined_index, partials, documents, index,
                   loader, serialized, fresh, query, results>>

\* inverted_index.write_all(&indexer.get_serialized_inverted_index())
WriteIdxTmp(outcome) ==
    /\ writer = "created_dcm"
    /\ \E order \in HashOrders(index) :
          LET bytes == serialize_index(index, order)
          IN  IF outcome = "ok"
              THEN /\ disk' = [disk EXCEPT !.idx_tmp = write_all(@, bytes)]
                   /\ writer' = "wrote_idx"
              ELSE /\ \E cut \in PartialCuts(bytes) :
                         disk' = [disk EXCEPT !.idx_tmp = write_all(@, SubSeq(bytes, 1, cut))]
                   /\ writer' = stopped(outcome)
    /\ UNCHANGED <<panic, backend, front, file_contents, parse_threads, index_threads, pc,
                   contents_split, cur_id, parsers, indexers, rx_doc, rx_index,
                   rx_alldocs, shared_index, joined_index, partials, documents, index,
                   loader, serialized, fresh, query, results>>

\* doc_index.write_all(&indexer.get_serialized_documents()); both files are
\* closed at the end of the block
WriteDcmTmp(outcome) ==
    /\ writer = "wrote_idx"
    /\ LET bytes == serialize_documents(documents)
       IN  IF outcome = "ok"
           THEN /\ disk' = [disk EXCEPT !.dcm_tmp = write_all(@, bytes)]
                /\ writer' = "wrote_dcm"
           ELSE /\ \E cut \in PartialCuts(bytes) :
                      disk' = [disk EXCEPT !.dcm_tmp = write_all(@, SubSeq(bytes, 1, cut))]
                /\ writer' = stopped(outcome)
    /\ UNCHANGED <<panic, backend, front, file_contents, parse_threads, index_threads, pc,
                   contents_split, cur_id, parsers, indexers, rx_doc, rx_index,
                   rx_alldocs, shared_index, joined_index, partials, documents, index,
                   loader, serialized, fresh, query, results>>

\* fs::rename(base_path.idx.tmp, base_path.idx): one atomic step
RenameIdx(outcome) ==
    /\ writer = "wrote_dcm"
    /\ IF outcome = "ok"
       THEN /\ disk' = [disk EXCEPT !.idx = disk.idx_tmp, !.idx_tmp = NoFile]
            /\ writer' = "renamed_idx"
       ELSE /\ disk' = disk
            /\ writer' = stopped(outcome)
    /\ UNCHANGED <<panic, backend, front, file_contents, parse_threads, index_threads, pc,
                   contents_split, cur_id, parsers, indexers, rx_doc, rx_index,
                   rx_alldocs, shared_index, joined_index, partials, documents, index,
                   loader, serialized, fresh, query, results>>

\* fs::rename(base_path.dcm.tmp, base_path.dcm); Ok(())
RenameDcm(outcome) ==
    /\ writer = "renamed_idx"
    /\ IF outcome = "ok"
       THEN /\ disk' = [disk EXCEPT !.dcm = disk.dcm_tmp, !.dcm_tmp = NoFile]
            /\ writer' = "returned_ok"
       ELSE /\ disk' = disk
            /\ writer' = stopped(outcome)
    /\ UNCHANGED <<panic, backend, front, file_contents, parse_threads, index_threads, pc,
                   contents_split, cur_id, parsers, indexers, rx_doc, rx_index,
                   rx_alldocs, shared_index, joined_index, partials, documents, index,
                   loader, serialized, fresh, query, results>>

\* ------------------------------------------------------------ load_from_path
\* A run of the program starts by loading the cache: before anything is
\* built, or after an earlier run's write_index_to_path has ended.
MayLoad == pc = "new" \/ writer \in {"returned_ok", "returned_err", "crashed"}

\* open_mmap(base_path)?: open, metadata, the empty-file check, Mmap::map
OpenMmap(outcome) ==
    /\ loader = "idle" /\ MayLoad
    /\ outcome \in {"ok", "err"}
    /\ outcome = "ok" => disk.corpus = "present" /\ Len(file_contents) > 0
    /\ loader' = IF outcome = "ok" THEN "mapped" ELSE "returned_err"
    /\ UNCHANGED <<panic, backend, front, file_contents, parse_threads, index_threads, pc,
                   contents_split, cur_id, parsers, indexers, rx_doc, rx_index,
                   rx_alldocs, shared_index, joined_index, partials, documents, index,
                   disk, writer, serialized, fresh, query, results>>

\* ReadIdx taking a missing file for an empty one
ReadIdxOrEmpty(outcome) ==
    /\ loader = "mapped"
    /\ outcome \in {"ok", "err"}
    /\ IF outcome = "ok"
       THEN /\ serialized' = [serialized EXCEPT !.inverted_index = disk.idx.bytes]
            /\ loader' = "read_idx"
       ELSE /\ serialized' = serialized
            /\ loader' = "returned_err"
    /\ UNCHANGED <<panic, backend, front, file_contents, parse_threads, index_threads, pc,
                   contents_split, cur_id, parsers, indexers, rx_doc, rx_index,
                   rx_alldocs, shared_index, joined_index, partials, documents, index,
                   disk, writer, fresh, query, results>>

\* fs::read(base_path.idx)?
ReadIdx(outcome) ==
    /\ loader = "mapped"
    /\ outcome \in {"ok", "err"}
    /\ outcome = "ok" => disk.idx.exists
    /\ IF outcome = "ok"
       THEN /\ serialized' = [serialized EXCEPT !.inverted_index = disk.idx.bytes]
            /\ loader' = "read_idx"
       ELSE /\ serialized' = serialized
            /\ loader' = "returned_err"
    /\ UNCHANGED <<panic, backend, front, file_contents, parse_threads, index_threads, pc,
                   contents_split, cur_id, parsers, indexers, rx_doc, rx_index,
                   rx_alldocs, shared_index, joined_index, partials, documents, index,
                   disk, writer, fresh, query, results>>

\* fs::read(base_path.dcm)?; Ok(SerializedIndex {..})
ReadDcm(outcome) ==
    /\ loader = "read_idx"
    /\ outcome \in {"ok", "err"}
    /\ outcome = "ok" => disk.dcm.exists
    /\ IF outcome = "ok"
       THEN /\ serialized' = [loaded |-> TRUE,
                              inverted_index |-> serialized.inverted_index,
                              documents |-> disk.dcm.bytes,
                              file_contents |-> file_contents]
            /\ loader' = "returned_ok"
       ELSE /\ serialized' = NoSerializedIndex
            /\ loader' = "returned_err"
    /\ UNCHANGED <<panic, backend, front, file_contents, parse_threads, index_threads, pc,
                   contents_split, cur_id, parsers, indexers, rx_doc, rx_index,
                   rx_alldocs, shared_index, joined_index, partials, documents, index,
                   disk, writer, fresh, query, results>>

\* ------------------------------------------------------ build_from_serialized
\* RayonIndexer::build_from_serialized on a fresh indexer: self.index is
\* assigned, then self.documents, then self.full_contents; each decode is
\* unwrapped
build_from_serialized(indexer, serialized_data) ==
    LET inverted_index == deserialize_index(serialized_data.inverted_index)
        docs == deserialize_documents(serialized_data.documents)
    IN  IF ~inverted_index.ok THEN [indexer EXCEPT !.pc = "panicked"]
        ELSE IF ~docs.ok
        THEN [indexer EXCEPT !.pc = "panicked", !.index = inverted_index.value]
        ELSE [pc |-> "built", index |-> inverted_index.value,
              documents |-> docs.value,
              full_contents |-> serialized_data.file_contents]

BuildFromSerialized ==
    /\ loader = "returned_ok" /\ serialized.loaded
    /\ fresh.pc = "new"
    /\ fresh' = build_from_serialized(fresh, serialized)
    /\ UNCHANGED <<panic, backend, front, file_contents, parse_threads, index_threads, pc,
                   contents_split, cur_id, parsers, indexers, rx_doc, rx_index,
                   rx_alldocs, shared_index, joined_index, partials, documents, index,
                   disk, writer, loader, serialized, query, results>>

\* -------------------------------------------------------------------- search
\* search_terms vectors: "b", "B c", "b"+"x b", "a c" (b, c: terms of the
\* corpora; x: in no abstract; a: a stopword)
Queries ==
    {<<<<98>>>>, <<<<66, 32, 99>>>>, <<<<98>>, <<120, 32, 98>>>>, <<<<97, 32, 99>>>>}

Searched(target, r) ==
    [target |-> target, panicked |-> r.panicked, value |-> r.value, why |-> r.why]

\* SearchBuilt without the borrow of self: the search runs while the
\* coordinator of the build is still collecting
SearchDuringBuild(all_terms) ==
    /\ pc \in {"collect", "scope_end", "built"}
    /\ query' = all_terms
    /\ results' = Searched("built", search(index, documents, file_contents, all_terms, <<>>))
    /\ UNCHANGED <<panic, backend, front, file_contents, parse_threads, index_threads, pc,
                   contents_split, cur_id, parsers, indexers, rx_doc, rx_index,
                   rx_alldocs, shared_index, joined_index, partials, documents, index,
                   disk, writer, loader, serialized, fresh>>

\* search on the indexer that was built from the corpus
SearchBuilt(all_terms) ==
    /\ pc = "built"
    /\ query' = all_terms
    /\ results' = Searched("built", search(index, documents, file_contents, all_terms, <<>>))
    /\ UNCHANGED <<panic, backend, front, file_contents, parse_threads, index_threads, pc,
                   contents_split, cur_id, parsers, indexers, rx_doc, rx_index,
                   rx_alldocs, shared_index, joined_index, partials, documents, index,
                   disk, writer, loader, serialized, fresh>>

\* search on the indexer that was built from the cache
SearchLoaded(all_terms) ==
    /\ fresh.pc = "built"
    /\ query' = all_terms
    /\ results' = Searched("loaded", search(fresh.index, fresh.documents,
                                            fresh.full_contents, all_terms, <<>>))
    /\ UNCHANGED <<panic, backend, front, file_contents, parse_threads, index_threads, pc,
                   contents_split, cur_id, parsers, indexers, rx_doc, rx_index,
                   rx_alldocs, shared_index, joined_index, partials, documents, index,
                   disk, writer, loader, serialized, fresh>>

\* ------------------------------------------------------- get_serialized_*
\* DocumentIndexer::get_serialized_inverted_index: RayonIndexer overrides it,
\* ThreadPoolIndexer keeps the trait's default body
get_serialized_inverted_index(indexer_backend, inverted_index, order) ==
    IF indexer_backend = "mapreduce"
    THEN Ok(serialize_index(inverted_index, order))
    ELSE Panic("not_implemented")

\* DocumentIndexer::get_serialized_documents, likewise
get_serialized_documents(indexer_backend, docs) ==
    IF indexer_backend = "mapreduce"
    THEN Ok(serialize_documents(docs))
    ELSE Panic("not_implemented")

GetSerializedInvertedIndex ==
    /\ pc = "built"
    /\ \E order \in HashOrders(index) :
          results' = Searched("get_serialized_inverted_index",
                              get_serialized_inverted_index(backend, index, order))
    /\ UNCHANGED <<panic, backend, front, file_contents, parse_threads, index_threads, pc,
                   contents_split, cur_id, parsers, indexers, rx_doc, rx_index,
                   rx_alldocs, shared_index, joined_index, partials, documents, index,
                   disk, writer, loader, serialized, fresh, query>>

GetSerializedDocuments ==
    /\ pc = "built"
    /\ results' = Searched("get_serialized_documents",
                           get_serialized_documents(backend, documents))
    /\ UNCHANGED <<panic, backend, front, file_contents, parse_threads, index_threads, pc,
                   contents_split, cur_id, parsers, indexers, rx_doc, rx_index,
                   rx_alldocs, shared_index, joined_index, partials, documents, index,
                   disk, writer, loader, serialized, fresh, query>>

\* ------------------------------------------------------------ specifications
ParserIds == 1..MaxParse
IndexerIds == 1..MaxIndex

\* the channel pipeline (new_hashmap and new_dashmap)
NextPipeline ==
    \/ Split
    \/ SpawnIndexTasks
    \/ SpawnDashmapIndexTasks
    \/ ParseDocuments
    \/ \E p \in ParserIds : StartParser(p)
    \/ \E p \in ParserIds : ParseTask(p)
    \/ \E p \in ParserIds : ParseFlush(p)
    \/ \E p \in ParserIds : ParseExit(p)
    \/ \E i \in IndexerIds : StartIndexer(i)
    \/ \E i \in IndexerIds : IndexTaskRecv(i)
    \/ \E i \in IndexerIds : IndexTaskSend(i)
    \/ \E i \in IndexerIds : DashRecv(i)
    \/ \E i \in IndexerIds : DashGetMut(i)
    \/ \E i \in IndexerIds : DashInsert(i)
    \/ \E i \in IndexerIds : DashExit(i)
    \/ MergeFirst
    \/ MergeNext
    \/ MergeDone
    \/ CollectFirst
    \/ CollectNext
    \/ CollectDone
    \/ FinishPipeline

\* the map-reduce build (RayonIndexer)
NextMapReduce ==
    \/ Split
    \/ MapParse
    \/ \E p \in ParserIds : ParseDocumentsVec(p)
    \/ \E p \in ParserIds : ParseDocumentsVecReturn(p)
    \/ MapCollect
    \/ MapIndex
    \/ \E k \in 1..MaxDocs : Reduce(k)
    \/ ReduceDone

\* queries on a built indexer
NextSearch == \E all_terms \in Queries : SearchBuilt(all_terms)

\* the serializing calls on a built indexer
NextSerialize == GetSerializedInvertedIndex \/ GetSerializedDocuments

Next == NextPipeline \/ NextMapReduce \/ NextSearch \/ NextSerialize

\* the whole build, every backend
Spec == Init /\ [][Next]_vars

\* a RayonIndexer and its cache: build, write, load, build from the cache, search
NextWrite ==
    \/ \E outcome \in Outcomes : CreateIdxTmp(outcome)
    \/ \E outcome \in Outcomes : CreateDcmTmp(outcome)
    \/ \E outcome \in Outcomes : WriteIdxTmp(outcome)
    \/ \E outcome \in Outcomes : WriteDcmTmp(outcome)
    \/ \E outcome \in Outcomes : RenameIdx(outcome)
    \/ \E outcome \in Outcomes : RenameDcm(outcome)

NextLoad ==
    \/ \E outcome \in Outcomes : OpenMmap(outcome)
    \/ \E outcome \in Outcomes : ReadIdx(outcome)
    \/ \E outcome \in Outcomes : ReadDcm(outcome)
    \/ BuildFromSerialized
    \/ \E all_terms \in Queries : SearchLoaded(all_terms)

NextCache == NextMapReduce \/ NextWrite \/ NextLoad

SpecCache == InitCache /\ [][NextCache]_vars

\* the chunker alone, on arbitrary valid UTF-8
NextSplit == Split
SpecSplit == InitSplit /\ [][NextSplit]_vars

\* the pipeline backends under fair scheduling: a step that stays possible is
\* eventually taken (every task runs on its own pool thread, the coordinator
\* on the caller's, and none of them loops forever)
InitPipeline == Init /\ backend # "mapreduce" /\ parse_threads + index_threads <= MaxPool
FairSpec == InitPipeline /\ [][NextPipeline]_vars /\ WF_vars(NextPipeline)

\* ------------------------------------------- a second build on one indexer
\* ids one indexer hands out over all its builds
MaxId == 3

\* build_from_file_contents called on an indexer that was built before: the
\* fields of self keep their values (cur_id, and the index and the table
\* until the build assigns them), the channels, tasks and vectors of the
\* build are new
BuildAgain(contents) ==
    /\ pc = "built" /\ LoaderAtRest
    /\ cur_id + count_docs(contents) <= MaxId
    /\ file_contents' = contents
    /\ pc' = "new"
    /\ contents_split' = <<>>
    /\ parsers' = <<>>
    /\ indexers' = <<>>
    /\ rx_doc' = <<>>
    /\ rx_index' = <<>>
    /\ rx_alldocs' = <<>>
    /\ shared_index' = EmptyIndex
    /\ joined_index' = EmptyIndex
    /\ partials' = <<>>
    /\ UNCHANGED <<panic, cache, backend, front, parse_threads, index_threads, cur_id,
                   documents, index>>

\* an indexer that is built, searched and built again
NextRebuild ==
    \/ NextPipeline
    \/ NextMapReduce
    \/ NextSearch
    \/ \E contents \in {DocB, DocB \o DocABC} : BuildAgain(contents)

InitRebuild == Init /\ file_contents \in {DocB, DocB \o DocABC} /\ parse_threads <= 2
SpecRebuild == InitRebuild /\ [][NextRebuild]_vars

\* ------------------------------------------------- the document channel
RECURSIVE Repeat(_, _)
Repeat(unit, n) == IF n = 0 THEN <<>> ELSE unit \o Repeat(unit, n - 1)

\* records the parser task has finalized when the specification starts: two
\* short of a full batch
ParsedBefore == chunk_size - 2

\* corpora of chunk_size - 1, chunk_size and chunk_size + 1 documents; the
\* first ParsedBefore have no abstract
BatchCorpora ==
    {Repeat(DocX, ParsedBefore) \o rest :
        rest \in {DocB, DocB \o DocX, DocB \o DocX \o DocB}}

\* build_hashmap with one parser task that has run its token loop over the
\* first ParsedBefore documents: they are in its chunk and its all_docs, the
\* tokenizer stands behind them; the index tasks are spawned
InitBatch ==
    /\ backend = "pipeline_partitioned"
    /\ file_contents \in BatchCorpora
    /\ parse_threads = 1
    /\ index_threads \in 1..MaxIndex
    /\ panic = ""
    /\ pc = "merge_first"
    /\ contents_split = split_contents(file_contents, CloseDocTag, parse_threads).value
    /\ cur_id = ParsedBefore
    /\ parsers =
          <<[NewParser(contents_split[1], "running") EXCEPT
                !.tokens = tokens_from(file_contents, ParsedBefore * Len(DocX)),
                !.chunk = [k \in 1..ParsedBefore |-> [DefaultDocumentRaw EXCEPT !.id = k - 1]],
                !.all_docs = [k \in 1..ParsedBefore |-> [DefaultDocumentRaw EXCEPT !.id = k - 1]]]>>
    /\ indexers = [i \in 1..index_threads |-> NewIndexer]
    /\ rx_doc = <<>>
    /\ rx_index = <<>>
    /\ rx_alldocs = <<>>
    /\ shared_index = EmptyIndex
    /\ joined_index = EmptyIndex
    /\ partials = <<>>
    /\ documents = <<>>
    /\ index = EmptyIndex
    /\ disk = Disk("present", NoFile, NoFile)
    /\ NoCacheActivity
    /\ NoFrontEnd

\* the parser task, the document channel and the index tasks
NextBatch ==
    \/ \E p \in ParserIds : ParseTask(p)
    \/ \E p \in ParserIds : ParseFlush(p)
    \/ \E p \in ParserIds : ParseExit(p)
    \/ \E i \in IndexerIds : StartIndexer(i)
    \/ \E i \in IndexerIds : IndexTaskRecv(i)
    \/ \E i \in IndexerIds : IndexTaskSend(i)

SpecBatch == InitBatch /\ [][NextBatch]_vars

\* ------------------------------------------------------ the merge alone
\* partial indices that meet in one merge
MaxPartials == 3

ReduceCorpora == {Flatten(us) : us \in SeqsUpTo({DocABC, DocB, DocT}, MaxPartials)}

\* the sorted tables a build of the corpus can end with: the records in any
\* order, the ids 0..n-1
TablesOf(contents) ==
    LET docs == sequential_documents(contents)
    IN  {[k \in DOMAIN docs |-> [docs[o[k]] EXCEPT !.id = k - 1]] :
            o \in Orders(DOMAIN docs)}

\* an index task that has indexed the records of table whose owner is i and
\* has found the document channel empty and closed
DrainedIndexer(table, owner, i) ==
    [NewIndexer EXCEPT
        !.status = "running",
        !.inverted_index =
            index_docs(EmptyIndex, SelectSeq(table, LAMBDA d : owner[d.id + 1] = i),
                       file_contents)]

\* the build at the point where the partial indices are about to meet: the
\* coordinator of build_hashmap at its first receive, or the map/reduce build
\* after the sort of the table
InitReduce ==
    /\ backend \in {"mapreduce", "pipeline_partitioned"}
    /\ file_contents \in ReduceCorpora
    /\ parse_threads \in 1..MaxPartials
    /\ index_threads \in (IF backend = "mapreduce" THEN {parse_threads} ELSE 1..MaxPartials)
    /\ panic = ""
    /\ contents_split = <<>>
    /\ cur_id = count_docs(file_contents)
    /\ parsers = <<>>
    /\ rx_doc = <<>>
    /\ rx_index = <<>>
    /\ rx_alldocs = <<>>
    /\ shared_index = EmptyIndex
    /\ joined_index = EmptyIndex
    /\ partials = <<>>
    /\ index = EmptyIndex
    /\ disk = Disk("present", NoFile, NoFile)
    /\ NoCacheActivity
    /\ NoFrontEnd
    /\ \E table \in TablesOf(file_contents) :
          IF backend = "mapreduce"
          THEN /\ pc = "map_index"
               /\ documents = table
               /\ indexers = <<>>
          ELSE /\ pc = "merge_first"
               /\ documents = <<>>
               /\ \E owner \in [1..Len(table) -> 1..index_threads] :
                      indexers = [i \in 1..index_threads |->
                                     DrainedIndexer(table, owner, i)]

NextReduce ==
    \/ \E i \in 1..MaxPartials : IndexTaskSend(i)
    \/ MergeFirst
    \/ MergeNext
    \/ MergeDone
    \/ MapIndex
    \/ \E k \in 1..MaxPartials : Reduce(k)
    \/ ReduceDone

SpecReduce == InitReduce /\ [][NextReduce]_vars

\* ------------------------------------------------------- the analyzer alone
MaxWords == 3

\* b, c, B; the stopwords a, in; ins, ands
AnalyzerWords ==
    {<<98>>, <<99>>, <<66>>, <<97>>, <<105, 110>>, <<105, 110, 115>>, <<97, 110, 100, 115>>}

\* the terms joined by single spaces
RECURSIVE join(_)
join(terms) ==
    IF terms = <<>> THEN <<>>
    ELSE IF Len(terms) = 1 THEN terms[1]
    ELSE terms[1] \o <<32>> \o join(Tail(terms))

AnalyzerTexts == {join(ws) : ws \in SeqsUpTo(AnalyzerWords, MaxWords)}

InitAnalyze ==
    /\ backend = "mapreduce"
    /\ file_contents = <<>>
    /\ parse_threads = 1
    /\ index_threads = 1
    /\ NewIndexerState
    /\ disk = Disk("absent", NoFile, NoFile)
    /\ writer = "idle"
    /\ loader = "idle"
    /\ serialized = NoSerializedIndex
    /\ fresh = NewRayonIndexer
    /\ query \in {<<text>> : text \in AnalyzerTexts}
    /\ results = [target |-> "none", panicked |-> FALSE, value |-> <<>>, why |-> ""]
    /\ NoFrontEnd

\* Analyzer::analyze on the text
Analyze ==
    /\ results.target = "none"
    /\ results' = Searched("analyze", Ok(analyze(query[1])))
    /\ UNCHANGED <<panic, backend, front, file_contents, parse_threads, index_threads, pc,
                   contents_split, cur_id, parsers, indexers, rx_doc, rx_index,
                   rx_alldocs, shared_index, joined_index, partials, documents, index,
                   disk, writer, loader, serialized, fresh, query>>

\* Analyzer::analyze on the terms it returned, joined by spaces
Reanalyze ==
    /\ results.target = "analyze"
    /\ results' = Searched("reanalyze", Ok(analyze(join(results.value))))
    /\ UNCHANGED <<panic, backend, front, file_contents, parse_threads, index_threads, pc,
                   contents_split, cur_id, parsers, indexers, rx_doc, rx_index,
                   rx_alldocs, shared_index, joined_index, partials, documents, index,
                   disk, writer, loader, serialized, fresh, query>>

NextAnalyze == Analyze \/ Reanalyze
SpecAnalyze == InitAnalyze /\ [][NextAnalyze]_vars

\* ------------------------------------------------ the map/reduce slicing
\* documents per corpus
MaxTable == 5

\* corpora of up to MaxTable documents, with or without a final newline
SliceCorpora ==
    {Flatten(us) \o tail : us \in SeqsUpTo({DocB, DocT}, MaxTable), tail \in {<<>>, Newline}}

\* a fresh RayonIndexer; parse_threads stands for num_cpus::get()
InitSlice ==
    /\ backend = "mapreduce"
    /\ file_contents \in SliceCorpora
    /\ parse_threads \in 1..MaxParse
    /\ index_threads = parse_threads
    /\ NewIndexerState
    /\ disk = Disk("present", NoFile, NoFile)
    /\ NoCacheActivity
    /\ NoFrontEnd

NextSlice ==
    \/ Split
    \/ MapParse
    \/ \E p \in ParserIds : ParseDocumentsVec(p)
    \/ \E p \in ParserIds : ParseDocumentsVecReturn(p)
    \/ MapCollect
    \/ MapIndex
    \/ \E k \in 1..MaxTable : Reduce(k)
    \/ ReduceDone

SpecSlice == InitSlice /\ [][NextSlice]_vars

\* ------------------------------------------- a write after interrupted writes
\* the corpus of the run whose write_index_to_path was interrupted
OlderCorpus == DocABC \o DocB
LeftoverIdx ==
    File(serialize_index(sequential_index(OlderCorpus),
                         CHOOSE o \in HashOrders(sequential_index(OlderCorpus)) : TRUE))
LeftoverDcm == File(serialize_documents(sequential_documents(OlderCorpus)))

\* what an interrupted write_index_to_path leaves under the temporary names:
\* it stopped in the first write_all, in the second, or at the first rename
Leftovers ==
    {<<Truncated(LeftoverIdx), File(<<>>)>>,
     <<LeftoverIdx, Truncated(LeftoverDcm)>>,
     <<LeftoverIdx, LeftoverDcm>>}

\* the directories a run finds after such a write
InterruptedDisks ==
    {[d EXCEPT !.idx_tmp = l[1], !.dcm_tmp = l[2]] :
        d \in {Disk("present", NoFile, NoFile), Disk("present", OldIdx, OldDcm)},
        l \in Leftovers}

\* a fresh RayonIndexer in a directory where a write was interrupted
InitRewrite ==
    /\ backend = "mapreduce"
    /\ file_contents \in {DocB, DocB \o DocABC}
    /\ parse_threads \in 1..2
    /\ index_threads = parse_threads
    /\ NewIndexerState
    /\ disk \in InterruptedDisks
    /\ NoCacheActivity
    /\ NoFrontEnd

\* write_index_to_path is called again on the built indexer: by the caller
\* that got the error, or by a later run that has built the same index
WriteAgain ==
    /\ writer \in {"returned_ok", "returned_err", "crashed"}
    /\ loader = "idle"
    /\ writer' = "idle"
    /\ UNCHANGED <<panic, backend, front, file_contents, parse_threads, index_threads, pc,
                   contents_split, cur_id, parsers, indexers, rx_doc, rx_index,
                   rx_alldocs, shared_index, joined_index, partials, documents, index,
                   disk, loader, serialized, fresh, query, results>>

NextRewrite == NextMapReduce \/ NextWrite \/ NextLoad \/ WriteAgain

SpecRewrite == InitRewrite /\ [][NextRewrite]_vars

\* ----------------------------------------------- the single-parser front-ends
\* --index files per run
MaxFiles == 3

FrontEnds == {"main", "main_set", "main_dashmap"}

\* the contents of an --index file
IndexFiles == {DocB, DocB \o DocABC, DocT \o Newline, Newline}

\* the front-ends' struct Document: the three texts and the id
Document(contents, d) ==
    [title |-> text_of(contents, d.title), url |-> text_of(contents, d.url),
     text |-> text_of(contents, d.text), id |-> d.id]

\* the records append_documents pushes for one file: `let mut id = 0`, then
\* the parser loop over the whole file
append_documents(contents) ==
    LET raw == parse_documents_vec(
                   [NewParser(ContentsSplit(0, contents), "running")
                       EXCEPT !.tokens = Tokenizer(contents)], 0)
    IN  [k \in DOMAIN raw |-> Document(contents, raw[k])]

\* main after reading the --index files, before the first append_documents
InitFront ==
    /\ backend \in FrontEnds
    /\ index_files \in SeqsUpTo(IndexFiles, MaxFiles) \ {<<>>}
    /\ appended = 0
    /\ file_contents = <<>>
    /\ parse_threads = 1
    /\ index_threads = 1
    /\ NewIndexerState
    /\ disk = Disk("absent", NoFile, NoFile)
    /\ NoCacheActivity

\* for contents in file_contents.iter() { append_documents(contents, &mut
\* documents, ..) }: one pass of the loop; main.rs also sends the records to
\* the index threads, in one batch as a file has fewer than 1000 documents
AppendDocuments ==
    /\ backend \in FrontEnds
    /\ appended < Len(index_files)
    /\ LET docs == append_documents(index_files[appended + 1])
       IN  /\ documents' = documents \o docs
           /\ rx_doc' = IF backend = "main" THEN Append(rx_doc, docs) ELSE rx_doc
    /\ appended' = appended + 1
    /\ UNCHANGED <<panic, cache, backend, index_files, file_contents, parse_threads,
                   index_threads, pc, contents_split, cur_id, parsers, indexers,
                   rx_index, rx_alldocs, shared_index, joined_index, partials, index>>

NextFront == AppendDocuments

SpecFront == InitFront /\ [][NextFront]_vars

\* =================================================================== claims
Built == pc = "built"

\* the terms the analyzer yields for a record's abstract text
terms_of(d) == SeqToSet(analyze(text_of(file_contents, d.text)))

\* every (term, id) pair of the document table is in the index
Complete ==
    \A k \in 1..Len(documents) : \A t \in terms_of(documents[k]) :
        t \in DOMAIN index /\ documents[k].id \in index[t]

\* the records the parser tasks have finalized so far
Finalized == Flatten([p \in DOMAIN parsers |-> parsers[p].all_docs])

\* C1: after a build with per-worker hash maps (mapreduce, pipeline_partitioned)
\* every term of every document of the table lists that document's id.
C1_IndexComplete ==
    (Built /\ backend \in {"mapreduce", "pipeline_partitioned"}) => Complete

\* two index tasks each indexed a batch, and the merged posting set of some
\* term holds ids from both
C1_Witness ==
    /\ Built /\ backend = "pipeline_partitioned"
    /\ Len(indexers) >= 2
    /\ \A i \in DOMAIN indexers : DOMAIN indexers[i].inverted_index # {}
    /\ \E t \in DOMAIN index : Cardinality(index[t]) >= 2

\* C2: after a build with the shared DashMap no (term, id) pair is lost,
\* whatever the interleaving of the dashmap_index_tasks.
C2_SharedMapComplete ==
    (Built /\ backend = "pipeline_shared") => Complete

\* C3: after a build every key of the index has a non-empty posting set and
\* every id in it belongs to a record of the table whose abstract yields the key.
C3_IndexSound ==
    Built =>
        \A t \in DOMAIN index :
            /\ index[t] # {}
            /\ \A d \in index[t] :
                   \E k \in 1..Len(documents) :
                       documents[k].id = d /\ t \in terms_of(documents[k])

C3_Witness ==
    /\ Built
    /\ \E t \in DOMAIN index : Cardinality(index[t]) >= 2
    /\ \E t \in DOMAIN index : Cardinality(index[t]) = 1

\* C4: after a build the table holds every finalized record exactly once and
\* documents[d].id = d for every position d (so the ids are 0..n-1).
C4_TableSortedDense ==
    Built =>
        /\ Len(documents) = Len(Finalized)
        /\ SeqToSet(documents) = SeqToSet(Finalized)
        /\ \A k \in 1..Len(documents) : documents[k].id = k - 1

\* the per-parser vectors held the ids out of input order: the second chunk's
\* parser drew id 0
C4_Witness ==
    /\ Built
    /\ Len(parsers) >= 2
    /\ parsers[1].all_docs # <<>> /\ parsers[2].all_docs # <<>>
    /\ parsers[2].all_docs[1].id = 0

\* C5: at every point of a build the ids of the finalized records are
\* exactly 0..k-1 for k finalized records (so they are pairwise distinct).
C5_IdsUnique ==
    {Finalized[k].id : k \in 1..Len(Finalized)} = 0..(Len(Finalized) - 1)

\* two parser tasks have each finalized a record, the later chunk first
C5_Witness ==
    /\ Len(parsers) >= 2
    /\ parsers[1].all_docs # <<>> /\ parsers[2].all_docs # <<>>
    /\ parsers[1].all_docs[1].id > parsers[2].all_docs[1].id
    /\ pc # "built"

\* C6: a build of a corpus of k closed <doc> elements ends with a table of
\* exactly k records, for every number of chunks.
C6_NumDocuments ==
    count_docs(file_contents) >= 1 =>
        /\ pc # "panicked"
        /\ Built => Len(documents) = count_docs(file_contents)

\* a build that returns has dropped no document
NoneDroppedOnReturn ==
    Built => Len(documents) = count_docs(file_contents)

\* C7: once the chunks are cut, a pipeline build completes under fair
\* scheduling (no state leaves every task blocked on a receive).
C7_PipelineTerminates ==
    (pc = "split" /\ backend # "mapreduce") ~> Built

\* a pipeline build with two parser tasks and two index tasks has completed
C7_Witness ==
    /\ Built /\ backend # "mapreduce"
    /\ Len(parsers) >= 2 /\ Len(indexers) >= 2
    /\ Len(documents) >= 2

\* C8: a pipeline build has returned only when every parser task and every
\* index task has returned and the document channel is drained.
C8_BuildReturnsAfterWorkers ==
    (Built /\ backend # "mapreduce") =>
        /\ \A p \in DOMAIN parsers : parsers[p].status = "done"
        /\ \A i \in DOMAIN indexers :
               indexers[i].status = "done" /\ indexers[i].work = <<>>
        /\ rx_doc = <<>>

\* a shared-map build has returned with a non-empty index built by two tasks
C8_Witness ==
    /\ Built /\ backend = "pipeline_shared"
    /\ Len(indexers) >= 2
    /\ DOMAIN index # {}

\* the slices are contiguous, in order, and cover the input
IsPartition(splits, contents) ==
    /\ Flatten([k \in DOMAIN splits |-> splits[k].data]) = contents
    /\ \A k \in DOMAIN splits :
           splits[k].base_offset =
               Len(Flatten([j \in 1..(k - 1) |-> splits[j].data]))

\* C9: for every input and every n >= 1 split_contents returns at most n
\* slices that partition the input, each with the right base_offset.
C9_ChunkerPartition ==
    pc # "new" =>
        /\ pc = "split"
        /\ Len(contents_split) <= parse_threads
        /\ IsPartition(contents_split, file_contents)

\* offset just past slice k
slice_end(splits, k) == splits[k].base_offset + Len(splits[k].data)

ends_after_tag(contents, e) ==
    e >= Len(CloseDocTag) /\ slice(contents, e - Len(CloseDocTag), e) = CloseDocTag

\* C10: every slice but the last ends right after a </doc> or at the end
\* of the input.
C10_BoundaryAligned ==
    pc = "split" =>
        \A k \in 1..(Len(contents_split) - 1) :
            \/ slice_end(contents_split, k) = Len(file_contents)
            \/ ends_after_tag(file_contents, slice_end(contents_split, k))

\* whenever split_contents returns, its slices partition the input
ChunkerPartitionOnReturn ==
    pc = "split" =>
        /\ Len(contents_split) <= parse_threads
        /\ IsPartition(contents_split, file_contents)

\* C11: on every valid UTF-8 input and for every chunk count the chunker cuts
\* on character boundaries only: each slice it emits starts on one, and no
\* slice end it chooses (the len - 1 fallback included) lies inside a
\* character.
C11_SlicesOnCharBoundary ==
    /\ \A k \in DOMAIN contents_split :
           is_char_boundary(file_contents, contents_split[k].base_offset)
    /\ panic # "char_boundary"

\* whenever split_contents returns, every slice starts on a character boundary
SliceStartsOnReturn ==
    pc = "split" =>
        \A k \in DOMAIN contents_split :
            is_char_boundary(file_contents, contents_split[k].base_offset)

\* split_contents has panicked on a range that is cut inside a character of
\* an input whose probes all found a decodable window
FallbackInsideChar ==
    /\ pc = "panicked" /\ panic = "char_boundary"
    /\ from_utf8_ok(file_contents)
    /\ ~is_char_boundary(file_contents, Len(file_contents) - 1)

\* C12: the same corpus built with any backend at any parallelism yields the
\* same inverted index, key for key and id set for id set. All builds agree
\* exactly when each agrees with one of them; the one compared against is
\* the map/reduce build on a single thread.
C12_BackendsAgree ==
    Built => index = sequential_index(file_contents)

\* a map/reduce build of two documents, none dropped and none lost, whose
\* index differs from the single-thread build's
IdsDependOnSchedule ==
    /\ Built /\ backend = "mapreduce"
    /\ Len(documents) = count_docs(file_contents)
    /\ Complete
    /\ index # sequential_index(file_contents)

\* every build yields the key set of the single-thread build unless it
\* dropped a document or lost an insert
KeysAgree ==
    (Built /\ Complete /\ Len(documents) = count_docs(file_contents)) =>
        DOMAIN index = DOMAIN sequential_index(file_contents)

\* the SerializedIndex handed to build_from_serialized holds what this
\* indexer's get_serialized_inverted_index and get_serialized_documents return
HoldsOwnSerialization ==
    /\ Built /\ serialized.loaded
    /\ \E o \in HashOrders(index) : serialized.inverted_index = serialize_index(index, o)
    /\ serialized.documents = serialize_documents(documents)

\* C13: a fresh indexer filled by build_from_serialized from the two
\* serialized artifacts of a built indexer answers every query as that
\* indexer does: the same terms in the same order and, for each term, the
\* same documents (id, title, url, text).
C13_SerializationRoundTrip ==
    (HoldsOwnSerialization /\ fresh.pc # "new") =>
        /\ fresh.pc = "built"
        /\ \A q \in Queries :
               search(fresh.index, fresh.documents, fresh.full_contents, q, <<>>)
                   = search(index, documents, file_contents, q, <<>>)

\* the reloaded indexer of a two-document corpus has answered a query with
\* an entry that lists both documents
C13_Witness ==
    /\ HoldsOwnSerialization
    /\ results.target = "loaded" /\ ~results.panicked
    /\ \E k \in DOMAIN results.value : Cardinality(results.value[k].matches) = 2

\* the whole artifacts write_index_to_path is writing
NewIdxFiles == {File(serialize_index(index, o)) : o \in HashOrders(index)}
NewDcmFile == File(serialize_documents(documents))

\* C14: whatever step write_index_to_path succeeds, fails or dies in, a step
\* leaves each of base_path.idx and base_path.dcm as it was (the previous
\* version, or absent) or replaces it by the complete new artifact; neither
\* is ever truncated or partly written.
C14_CanonicalFilesWhole ==
    [][/\ disk'.idx = disk.idx \/ disk'.idx \in NewIdxFiles
       /\ disk'.dcm = disk.dcm \/ disk'.dcm = NewDcmFile]_vars

\* the process died while writing the document table: the temporary file
\* holds part of it, both previous cache files are in place
C14_Witness ==
    /\ writer = "crashed"
    /\ disk.dcm_tmp.exists /\ disk.dcm_tmp.bytes # <<>>
    /\ disk.dcm_tmp # NewDcmFile
    /\ disk.idx = OldIdx /\ disk.dcm = OldDcm

\* write_index_to_path died after the first rename and before the second:
\* base_path.idx is the new index, base_path.dcm a table of another build
CrashedBetweenRenames ==
    /\ writer = "crashed"
    /\ disk.idx \in NewIdxFiles
    /\ disk.dcm_tmp = NewDcmFile
    /\ disk.dcm # NewDcmFile

\* C15: after a crash between the two renames load_from_path does not
\* return the two cache files it finds, the index of one build and the
\* document table of another, as a SerializedIndex.
C15_StalePairRejected ==
    CrashedBetweenRenames =>
        ~(/\ loader = "returned_ok"
          /\ File(serialized.inverted_index) = disk.idx
          /\ File(serialized.documents) = disk.dcm)

\* an indexer filled from such a pair has been searched and indexed its
\* table out of bounds
StalePairSearchPanics ==
    /\ CrashedBetweenRenames
    /\ fresh.pc = "built"
    /\ results.target = "loaded" /\ results.panicked

\* an indexer filled from such a pair has answered a query with a document
\* the built indexer does not return for it
StalePairWrongAnswer ==
    /\ CrashedBetweenRenames
    /\ fresh.pc = "built"
    /\ results.target = "loaded" /\ ~results.panicked
    /\ results.value # search(index, documents, file_contents, query, <<>>).value

\* C16: a step of write_index_to_path never changes the indexer; when
\* creating, writing or renaming fails the call returns the error and the
\* failing step leaves base_path.idx and base_path.dcm as they were (whole,
\* by C14); Ok(()) is returned only with both new artifacts in place.
C16_WriteFailureReported ==
    [][writer' # writer =>
          /\ <<index, documents, file_contents, cur_id, pc>>'
                 = <<index, documents, file_contents, cur_id, pc>>
          /\ writer' = "returned_err" =>
                 disk'.idx = disk.idx /\ disk'.dcm = disk.dcm
          /\ writer' = "returned_ok" =>
                 /\ disk'.idx \in NewIdxFiles /\ disk'.dcm = NewDcmFile
                 /\ ~disk'.idx_tmp.exists /\ ~disk'.dcm_tmp.exists]_vars

\* the second rename failed: the error is returned, the new table is still
\* under its temporary name, the previous table under base_path.dcm
C16_Witness ==
    /\ writer = "returned_err"
    /\ disk.idx \in NewIdxFiles
    /\ disk.dcm_tmp = NewDcmFile
    /\ disk.dcm = OldDcm /\ OldDcm # NewDcmFile
    /\ DOMAIN index # {}

\* C17: load_from_path reads the corpus, then base_path.idx, then
\* base_path.dcm; it gets past a read only if the file is there (the corpus
\* also non-empty), returns Ok only after all three, with their bytes, and
\* hands out no SerializedIndex otherwise.
C17_LoadAllOrNothing ==
    [][loader' # loader =>
          /\ loader' = "mapped" =>
                 loader = "idle" /\ disk.corpus = "present" /\ file_contents # <<>>
          /\ loader' = "read_idx" => loader = "mapped" /\ disk.idx.exists
          /\ loader' = "returned_ok" =>
                 /\ loader = "read_idx" /\ disk.dcm.exists
                 /\ serialized' = [loaded |-> TRUE,
                                   inverted_index |-> disk.idx.bytes,
                                   documents |-> disk.dcm.bytes,
                                   file_contents |-> file_contents]
          /\ loader' # "returned_ok" => ~serialized'.loaded]_vars

\* the corpus and base_path.idx were read, base_path.dcm is missing: an
\* error was returned
C17_Witness ==
    /\ loader = "returned_err"
    /\ disk.corpus = "present" /\ file_contents # <<>>
    /\ disk.idx.exists /\ ~disk.dcm.exists
    /\ ~serialized.loaded

\* all three files were read and returned
LoadReturnedOk ==
    /\ loader = "returned_ok"
    /\ serialized.loaded /\ serialized.inverted_index # <<>> /\ serialized.documents # <<>>

\* C18: build_from_serialized takes an artifact that does not decode as a
\* cache miss: it does not panic, and an indexer it has not filled completely
\* is left empty (in particular the index is not replaced when the document
\* table fails to decode).
C18_DecodeFailureIsCacheMiss ==
    /\ fresh.pc # "panicked"
    /\ fresh.pc # "built" => fresh.index = EmptyIndex /\ fresh.documents = <<>>

\* build_from_serialized has panicked on the document table with the index
\* already replaced
IndexReplacedTableNot ==
    /\ fresh.pc = "panicked"
    /\ DOMAIN fresh.index # {}
    /\ fresh.documents = <<>>

\* C19: on an indexer built by any backend every id of every posting set
\* is an offset into the document table, the record at that offset carries
\* the id and holds the term, and no search indexes the table out of
\* bounds.
C19_PostingIdsInTable ==
    /\ Built =>
           \A t \in DOMAIN index : \A id \in index[t] :
               /\ id >= 0 /\ id < Len(documents)
               /\ documents[id + 1].id = id
               /\ t \in terms_of(documents[id + 1])
    /\ results.target = "built" => ~results.panicked

\* a search on a shared-map build has returned an entry listing two documents
C19_Witness ==
    /\ Built /\ backend = "pipeline_shared"
    /\ results.target = "built"
    /\ \E k \in DOMAIN results.value : Cardinality(results.value[k].matches) = 2

\* the analyzed terms of a query, in analysis order
analyzed(all_terms) == Flatten([k \in DOMAIN all_terms |-> analyze(all_terms[k])])

\* those of them that are keys of the index
key_terms(all_terms) == SelectSeq(analyzed(all_terms), LAMBDA t : t \in DOMAIN index)

\* C20: search returns one entry per analyzed term that is a key of the
\* index, in analysis order (a term met twice gives two entries, a term that
\* is no key gives none), each with the documents of the term's posting set;
\* it leaves the index and the document table as they were.
C20_SearchResults ==
    [][(results' # results \/ query' # query) /\ results'.target = "built" =>
          /\ index' = index /\ documents' = documents
          /\ ~results'.panicked
          /\ Len(results'.value) = Len(key_terms(query'))
          /\ \A k \in DOMAIN results'.value :
                 /\ results'.value[k].term = key_terms(query')[k]
                 /\ results'.value[k].matches =
                        {to_document(documents[id + 1], file_contents) :
                            id \in index[key_terms(query')[k]]}]_vars

\* the query "b", "x b" on an index that holds b has returned two entries
C20_Witness ==
    /\ results.target = "built"
    /\ query = <<<<98>>, <<120, 32, 98>>>>
    /\ Len(results.value) = 2
    /\ results.value[1].term = <<98>> /\ results.value[2].term = <<98>>

\* the tokenizer signals an error in some chunk of the build
SomeChunkMalformed ==
    \E p \in DOMAIN parsers : has_error(Tokenizer(parsers[p].data))

\* C21: a build in which the tokenizer signals an error in a chunk, of
\* whatever length, is not aborted: no thread of it panics.
C21_MalformedNeverAborts ==
    SomeChunkMalformed => pc # "panicked"

\* the channel pipeline is not aborted by a malformed chunk
PipelineSurvivesMalformed ==
    (SomeChunkMalformed /\ backend # "mapreduce") => pc # "panicked"

\* a pipeline build with a malformed chunk has returned
MalformedPipelineBuilt ==
    SomeChunkMalformed /\ backend # "mapreduce" /\ Built

\* C22: analyzing the joined output of the analyzer gives that output back:
\* every term it emits is kept, unchanged, when analyzed again.
C22_AnalyzeIdempotent ==
    results.target = "reanalyze" => results.value = analyze(query[1])

\* a text without a word whose stem is a stopword is analyzed idempotently
StemsNoStopword ==
    (results.target = "reanalyze" /\ \A k \in DOMAIN analyze(query[1]) :
                                        analyze(query[1])[k] \notin Stopwords)
        => results.value = analyze(query[1])

\* the analyzer emitted a stopword, and lost it the second time
StopwordEmitted ==
    /\ results.target = "reanalyze"
    /\ \E k \in DOMAIN analyze(query[1]) : analyze(query[1])[k] \in Stopwords
    /\ Len(results.value) < Len(analyze(query[1]))


\* C23: on an indexer of any backend the serializing calls return their
\* bytes; none of them ends in the "Not implemented" panic.
C23_EveryBackendSerializes ==
    results.target \in {"get_serialized_inverted_index", "get_serialized_documents"}
        => ~results.panicked

\* the map/reduce indexer returns the bytes of its index and of its table
MapReduceSerializes ==
    (backend = "mapreduce"
        /\ results.target \in {"get_serialized_inverted_index", "get_serialized_documents"})
        => ~results.panicked

\* the bytes a map/reduce indexer returned for a table of two records
MapReduceSerialized ==
    /\ backend = "mapreduce"
    /\ results.target = "get_serialized_documents"
    /\ ~results.panicked
    /\ Len(documents) = 2

\* C24: every build hands out ids from 0: after any build of an indexer,
\* the first or a later one, the table holds documents[d].id = d.
C24_IdsFromZeroEveryBuild ==
    Built => \A k \in 1..Len(documents) : documents[k].id = k - 1

\* the first build of an indexer hands out ids from 0
FirstBuildFromZero ==
    (Built /\ cur_id = Len(documents))
        => \A k \in 1..Len(documents) : documents[k].id = k - 1

\* a second build has returned, and its table starts at the id the first
\* build stopped at
SecondBuildContinues ==
    /\ Built
    /\ cur_id > Len(documents)
    /\ Len(documents) >= 1
    /\ documents[1].id = cur_id - Len(documents)

\* search on an indexer built twice reads documents[id] past the table's end
SearchAfterSecondBuildPanics ==
    /\ Built
    /\ cur_id > Len(documents)
    /\ results.target = "built" /\ results.panicked
    /\ query # <<>>

\* the key-wise union of a sequence of partial indices
key_union(parts) ==
    [t \in UNION {DOMAIN parts[k] : k \in DOMAIN parts} |->
        UNION {parts[k][t] : k \in {j \in DOMAIN parts : t \in DOMAIN parts[j]}}]

\* the partial indices the index tasks hold
held == [i \in DOMAIN indexers |-> indexers[i].inverted_index]

\* the partial indices of the state, and the empty map
Parts == SeqToSet(partials) \cup SeqToSet(held) \cup {joined_index, EmptyIndex}

\* C25: the merge is commutative and associative with the empty map as
\* identity; a step of the parallel reduce keeps the key-wise union of the
\* partial results, and both merges end with the key-wise union of all the
\* partial indices, whatever the arrival order and the pairing were.
C25_ReduceIsUnion ==
    /\ [](\A a, b \in Parts :
            /\ merge_index(a, b) = merge_index(b, a)
            /\ merge_index(a, EmptyIndex) = a /\ merge_index(EmptyIndex, a) = a
            /\ \A c \in Parts :
                   merge_index(merge_index(a, b), c) = merge_index(a, merge_index(b, c)))
    /\ [][/\ (pc = "reduce" /\ pc' = "reduce") => key_union(partials') = key_union(partials)
          /\ (pc = "reduce" /\ pc' = "built") => index' = key_union(partials)
          /\ (pc = "merge" /\ pc' = "collect_first") => joined_index' = key_union(held)]_vars

\* three partial indices that share a key have been merged by the coordinator
C25_Witness ==
    /\ pc = "collect_first"
    /\ Len(indexers) = 3
    /\ \E t \in DOMAIN joined_index :
          /\ \A i \in DOMAIN indexers : t \in DOMAIN held[i]
          /\ Cardinality(joined_index[t]) = 3

\* the parallel reduce has three partial results to pair
ThreePartialResults ==
    pc = "reduce" /\ Len(partials) = 3 /\ \A k \in 1..3 : DOMAIN partials[k] # {}

\* the coordinator of build_hashmap has left the merge loop
Merged == pc \in {"collect_first", "collect", "scope_end", "built"}

\* index task i sends its map in this step
Sends(i) ==
    /\ indexers[i].status = "running" /\ indexers'[i].status = "done"
    /\ rx_index' = Append(rx_index, indexers[i].inverted_index)

\* C26: with the partitioned pipeline only index task i changes its map, and
\* only by indexing a batch it took from the document channel; it sends the
\* map once, when it has found the document channel empty and closed, and
\* does nothing after; the coordinator's first receives never find a closed
\* empty channel, and when it leaves the merge loop all index_threads tasks
\* have sent and every map sent has been received.
C26_PartialsSentOnce ==
    /\ [](backend = "pipeline_partitioned" =>
            /\ panic # "unwrap"
            /\ Merged => /\ Len(indexers) = index_threads
                         /\ \A i \in DOMAIN indexers : indexers[i].status = "done"
                         /\ rx_index = <<>>)
    /\ [][(backend = "pipeline_partitioned" /\ DOMAIN indexers' = DOMAIN indexers) =>
            /\ \A i \in DOMAIN indexers :
                   /\ indexers[i].status = "done" => indexers'[i] = indexers[i]
                   /\ indexers'[i].inverted_index # indexers[i].inverted_index =>
                          /\ indexers[i].status = "running"
                          /\ rx_doc # <<>> /\ rx_doc' = Tail(rx_doc)
                          /\ \A j \in DOMAIN indexers \ {i} : indexers'[j] = indexers[j]
                   /\ Sends(i) => rx_doc = <<>> /\ DocChannelClosed
            /\ Len(rx_index') > Len(rx_index) =>
                   Cardinality({i \in DOMAIN indexers : Sends(i)}) = 1
            /\ Len(rx_index') < Len(rx_index) =>
                   pc \in {"merge_first", "merge"} /\ rx_index' = Tail(rx_index)]_vars

\* two index tasks have sent, one of them an empty map, and the coordinator
\* has merged both
C26_Witness ==
    /\ backend = "pipeline_partitioned" /\ Merged
    /\ Len(indexers) = 2
    /\ indexers[1].inverted_index = EmptyIndex
    /\ indexers[2].inverted_index # EmptyIndex
    /\ joined_index = indexers[2].inverted_index

\* parser task p finalizes a record in this step
Finalizes(p) == Len(parsers'[p].all_docs) = Len(parsers[p].all_docs) + 1

\* parser task p leaves its token loop in this step
Flushes(p) == parsers[p].status = "running" /\ parsers'[p].status = "flushed"

\* C27: a message on the document channel holds at most chunk_size records
\* and a parser task never holds a full batch; a finalized record goes to the
\* task's batch, which is sent the moment it holds chunk_size records; the
\* rest is sent once, when the task leaves its loop, and nothing after; a
\* message leaves the channel to exactly one index task, which indexes it.
C27_Batching ==
    /\ [](/\ \A m \in DOMAIN rx_doc : Len(rx_doc[m]) <= chunk_size
          /\ \A p \in DOMAIN parsers : Len(parsers[p].chunk) < chunk_size)
    /\ [][DOMAIN parsers' = DOMAIN parsers /\ DOMAIN indexers' = DOMAIN indexers =>
            /\ \A p \in DOMAIN parsers :
                   LET st == parsers[p]
                       new == parsers'[p]
                       record == new.all_docs[Len(new.all_docs)]
                   IN  /\ Finalizes(p) =>
                              IF Len(st.chunk) + 1 = chunk_size
                              THEN /\ rx_doc' = Append(rx_doc, Append(st.chunk, record))
                                   /\ new.chunk = <<>>
                              ELSE /\ rx_doc' = rx_doc
                                   /\ new.chunk = Append(st.chunk, record)
                       /\ Flushes(p) =>
                              rx_doc' = Append(rx_doc, st.chunk) /\ new.chunk = <<>>
                       /\ (~Finalizes(p) /\ ~Flushes(p)) =>
                              new.chunk = st.chunk /\ new.all_docs = st.all_docs
                       /\ st.status \in {"flushed", "done"} =>
                              new.chunk = <<>> /\ new.status # "running"
            /\ Len(rx_doc') > Len(rx_doc) =>
                   Cardinality({p \in DOMAIN parsers : Finalizes(p) \/ Flushes(p)}) = 1
            /\ Len(rx_doc') < Len(rx_doc) =>
                   /\ rx_doc' = Tail(rx_doc)
                   /\ \E i \in DOMAIN indexers :
                          /\ indexers[i].status = "running"
                          /\ indexers'[i].inverted_index =
                                 index_docs(indexers[i].inverted_index, Head(rx_doc),
                                            file_contents)
                          /\ \A j \in DOMAIN indexers \ {i} : indexers'[j] = indexers[j]]_vars

\* a full batch is on the channel, the record finalized after it is in the
\* task's next batch
C27_Witness ==
    /\ \E m \in DOMAIN rx_doc : Len(rx_doc[m]) = chunk_size
    /\ Len(parsers[1].chunk) = 1
    /\ Len(parsers[1].all_docs) = chunk_size + 1

\* a corpus of exactly chunk_size documents: the full batch was received by
\* an index task, and the batch sent at the end of the loop is empty
EmptyLastBatch ==
    /\ Len(parsers[1].all_docs) = chunk_size
    /\ parsers[1].status = "flushed"
    /\ rx_doc = <<<<>>>>
    /\ \E i \in DOMAIN indexers : indexers[i].inverted_index # EmptyIndex

\* the table is in id order
Sorted(docs) == \A k, l \in DOMAIN docs : k < l => docs[k].id <= docs[l].id

\* C28: in a pipeline build the table changes only in steps of the
\* coordinator, in which no task moves; the build returns, with the table
\* sorted, only when every parser and index task has returned; and a search
\* reads the table only after that, when it is sorted and holds the records
\* as the parser tasks finalized them.
C28_TableReadAfterSort ==
    [][backend # "mapreduce" =>
          /\ documents' # documents =>
                 /\ pc \in {"collect_first", "collect", "scope_end"}
                 /\ parsers' = parsers /\ indexers' = indexers
          /\ (pc # "built" /\ pc' = "built") =>
                 /\ \A p \in DOMAIN parsers : parsers[p].status = "done"
                 /\ \A i \in DOMAIN indexers : indexers[i].status = "done"
                 /\ documents' = sort_by_id(documents)
          /\ (results' # results \/ query' # query) =>
                 /\ pc = "built" /\ documents' = documents
                 /\ Sorted(documents)
                 /\ SeqToSet(documents) = SeqToSet(Finalized)]_vars

\* a search has read a table of two records that the parser tasks finalized
\* out of input order
C28_Witness ==
    /\ Built /\ backend # "mapreduce"
    /\ Len(parsers) >= 2
    /\ parsers[1].all_docs # <<>> /\ parsers[2].all_docs # <<>>
    /\ parsers[2].all_docs[1].id < parsers[1].all_docs[1].id
    /\ results.target = "built"
    /\ \E k \in DOMAIN results.value : results.value[k].matches # {}

\* C29: split_contents never fails on a slice that reaches past the end of
\* the buffer: the probe's 4-byte window stays inside, wherever the probe
\* position falls.
C29_ProbeTotal ==
    pc = "panicked" => panic # "slice_end"

\* the probe is total where a whole window is left: from a position at least
\* size_of_char before the end of a buffer that ends in size_of_char ASCII
\* bytes
ProbeTotalBeforeTail ==
    \A try_index \in 0..(Len(file_contents) - size_of_char) :
        (\A k \in (Len(file_contents) - size_of_char + 1)..Len(file_contents) :
             file_contents[k] < 128)
            => ~get_next_codepoint_idx(file_contents, try_index).panicked

\* the chunker has returned for an input it probed inside
ProbedAndReturned ==
    /\ pc = "split" /\ parse_threads >= 2
    /\ Len(contents_split) >= 2

\* the first position from try_index on that is the end of the buffer or
\* holds a byte that is no continuation byte
RECURSIVE continuation_scan(_, _)
continuation_scan(string, try_index) ==
    IF try_index < Len(string) /\ is_continuation(string[try_index + 1])
    THEN continuation_scan(string, try_index + 1)
    ELSE try_index

\* C30: from every start position of a valid UTF-8 buffer, the index
\* get_next_codepoint_idx returns is the one the continuation-byte scan stops at.
C30_ProbeIsContinuationScan ==
    \A try_index \in 0..Len(file_contents) :
        LET probe == get_next_codepoint_idx(file_contents, try_index)
        IN  ~probe.panicked => probe.value = continuation_scan(file_contents, try_index)

\* the index the probe returns is a code-point boundary at or after the one
\* the scan stops at
ProbeAtOrAfterScan ==
    \A try_index \in 0..Len(file_contents) :
        LET probe == get_next_codepoint_idx(file_contents, try_index)
        IN  ~probe.panicked =>
               /\ probe.value >= continuation_scan(file_contents, try_index)
               /\ is_char_boundary(file_contents, probe.value)

\* started inside a character with a whole window behind it, the probe and
\* the scan stop at the same index
ProbeRealigns ==
    \E try_index \in 1..(Len(file_contents) - 1) :
        /\ is_continuation(file_contents[try_index + 1])
        /\ ~get_next_codepoint_idx(file_contents, try_index).panicked
        /\ get_next_codepoint_idx(file_contents, try_index).value
               = continuation_scan(file_contents, try_index)
        /\ continuation_scan(file_contents, try_index) < Len(file_contents)

\* slice k of the returned split was cut by the fallback: the probe made
\* from its start stopped inside the input and no </doc> lies at or after it
FallbackAt(k) ==
    /\ parse_threads >= 2
    /\ LET probe == get_next_codepoint_idx(
                        file_contents,
                        contents_split[k].base_offset
                            + Len(file_contents) \div parse_threads)
       IN  /\ ~probe.panicked
           /\ probe.value < Len(file_contents)
           /\ find(slice(file_contents, probe.value, Len(file_contents)),
                   CloseDocTag) = {}

\* C31 as stated: a slice cut by the fallback ends at len - 1 and the final
\* byte of the input is in no slice.
C31_FinalByteDiscarded ==
    pc = "split" =>
        \A k \in DOMAIN contents_split :
            FallbackAt(k) =>
                /\ slice_end(contents_split, k) = Len(file_contents) - 1
                /\ \A j \in DOMAIN contents_split :
                       slice_end(contents_split, j) <= Len(file_contents) - 1

\* C31, amended: a slice cut by the fallback ends at len - 1, and the final
\* byte of the input is the one-byte slice that follows it, the last of the
\* split; the slices partition the input.
C31_FinalByteIsLastSlice ==
    pc = "split" =>
        \A k \in DOMAIN contents_split :
            FallbackAt(k) =>
                /\ slice_end(contents_split, k) = Len(file_contents) - 1
                /\ Len(contents_split) = k + 1
                /\ contents_split[k + 1] =
                       ContentsSplit(Len(file_contents) - 1,
                                     <<file_contents[Len(file_contents)]>>)
                /\ IsPartition(contents_split, file_contents)

\* the chunker has returned a split whose second slice was cut by the fallback
C31_Witness ==
    /\ pc = "split"
    /\ Len(contents_split) = 3
    /\ FallbackAt(2)

\* the records parser task p holds: the finalized ones and the working one
RecordsOf(p) == SeqToSet(parsers[p].all_docs) \cup {parsers[p].cur_doc}

\* range is the range of one of the text tokens of p's chunk shifted by the
\* chunk's base_offset, lies inside the corpus and denotes there the token's
\* bytes
ShiftedTokenRange(p, tokens, range) ==
    \E k \in DOMAIN tokens :
        /\ tokens[k].kind = "Text"
        /\ range = Range(parsers[p].base_offset + tokens[k].start,
                         parsers[p].base_offset + tokens[k].end)
        /\ range.end <= Len(file_contents)
        /\ slice(file_contents, range.start, range.end)
               = slice(parsers[p].data, tokens[k].start, tokens[k].end)

\* the ranges parser task p has stored
StoredRanges(p) ==
    UNION {{d.title, d.url, d.text} : d \in RecordsOf(p)} \ {DefaultDocumentRaw.text}

\* C32: every title, url and text range a parser task has stored is the
\* range of a text token of its chunk shifted by the chunk's base_offset, is
\* inside the corpus and denotes there the bytes the token has in the chunk.
C32_AbsoluteRanges ==
    \A p \in DOMAIN parsers :
        StoredRanges(p) # {} =>
            With(Tokenizer(parsers[p].data), LAMBDA tokens :
                \A range \in StoredRanges(p) : ShiftedTokenRange(p, tokens, range))

\* a parser task whose chunk starts inside the corpus has stored the range
\* of an abstract
C32_Witness ==
    \E p \in DOMAIN parsers :
        /\ parsers[p].base_offset > 0
        /\ \E d \in SeqToSet(parsers[p].all_docs) :
               /\ d.text # DefaultDocumentRaw.text
               /\ slice(file_contents, d.text.start, d.text.end) = <<98>>

\* ------------------------------------------------------------------ C33
\* the value of cur_tag when token k is matched: the name of the last element
\* start before it, or the empty name once a closing tag came after that
governing_tag(tokens, k) ==
    LET marks == {j \in 1..(k - 1) : tokens[j].kind \in {"ElementStart", "ElementEndClose"}}
    IN  IF marks = {} THEN <<>>
        ELSE LET last == CHOOSE j \in marks : \A i \in marks : i <= j
             IN  IF tokens[last].kind = "ElementStart" THEN tokens[last].local ELSE <<>>

\* range is the absolute range of a text token matched while cur_tag = tag
TextUnder(p, tokens, tag, range) ==
    \E k \in DOMAIN tokens :
        /\ tokens[k].kind = "Text"
        /\ governing_tag(tokens, k) = tag
        /\ range = absolute(parsers[p].base_offset, tokens[k])

\* C33: a text token changes a field of the working record only while cur_tag
\* is title, abstract or url: every range a record holds in title, text or url
\* other than the default 0..0 is that of a text token matched under the tag
\* of that field, so a text token matched under any other element name, or
\* after a closing tag cleared cur_tag, has changed none of the three fields.
C33_TextOnlyUnderItsTag ==
    \A p \in DOMAIN parsers :
        StoredRanges(p) # {} =>
            With(Tokenizer(parsers[p].data), LAMBDA tokens :
                \A d \in RecordsOf(p) :
                    /\ d.title # DefaultDocumentRaw.title =>
                           TextUnder(p, tokens, NameTitle, d.title)
                    /\ d.text # DefaultDocumentRaw.text =>
                           TextUnder(p, tokens, NameAbstract, d.text)
                    /\ d.url # DefaultDocumentRaw.url =>
                           TextUnder(p, tokens, NameUrl, d.url))

\* the tokens of parser p's chunk that its loop has matched so far
Matched(p) ==
    With(Tokenizer(parsers[p].data), LAMBDA tokens :
        SubSeq(tokens, 1, Len(tokens) - Len(parsers[p].tokens)))

\* a parser has matched a text token under <doc> and one after the closing
\* tag cleared cur_tag, and the record it finalized holds the default ranges
C33_Witness ==
    \E p \in DOMAIN parsers :
        /\ parsers[p].status # "queued"
        /\ Len(parsers[p].all_docs) = 1
        /\ StoredRanges(p) = {}
        /\ With(Matched(p), LAMBDA tokens :
               /\ \E k \in DOMAIN tokens : /\ tokens[k].kind = "Text"
                                            /\ governing_tag(tokens, k) = NameDoc
               /\ \E k \in DOMAIN tokens : /\ tokens[k].kind = "Text"
                                            /\ governing_tag(tokens, k) = <<>>
                                            /\ k > 1)

\* ------------------------------------------------------------------ C34
\* the range of the last text token of segment matched while cur_tag = tag,
\* and the default range when the segment has none
LastUnder(segment, tag, base_offset) ==
    LET hits == {k \in DOMAIN segment : /\ segment[k].kind = "Text"
                                        /\ governing_tag(segment, k) = tag}
    IN  IF hits = {} THEN Range(0, 0)
        ELSE absolute(base_offset, segment[CHOOSE k \in hits : \A j \in hits : j <= k])

\* the tokens from the previous </doc> up to and including the next one
Segment(p) == SubSeq(parsers[p].tokens, 1, first_doc_close(parsers[p].tokens))

\* C34: on each closing </doc> the working record takes the counter's value
\* as an id no finalized record has, is pushed exactly once and is reset to the
\* default; each field of the pushed record is the range of the last text
\* token matched under that field's tag since the previous </doc>, and 0..0
\* when the document has no such element.
C34_ParserReset ==
    [][\A p \in DOMAIN parsers :
          (DOMAIN parsers' = DOMAIN parsers /\ parsers'[p] # parsers[p]
              /\ parsers[p].status = "running" /\ first_doc_close(parsers[p].tokens) > 0) =>
             LET segment == Segment(p)
                 base_offset == parsers[p].base_offset
                 pushed == parsers'[p].all_docs[Len(parsers'[p].all_docs)]
             IN  /\ parsers'[p].all_docs = Append(parsers[p].all_docs, pushed)
                 /\ pushed.id = cur_id /\ cur_id' = cur_id + 1
                 /\ \A d \in SeqToSet(Finalized) : d.id # pushed.id
                 /\ pushed.title = LastUnder(segment, NameTitle, base_offset)
                 /\ pushed.text = LastUnder(segment, NameAbstract, base_offset)
                 /\ pushed.url = LastUnder(segment, NameUrl, base_offset)
                 /\ parsers'[p].cur_doc = DefaultDocumentRaw
                 /\ parsers'[p].tokens =
                        SubSeq(parsers[p].tokens, Len(segment) + 1, Len(parsers[p].tokens))
      ]_vars

\* one parser has finalized a document with an abstract and a url and, after
\* it, a document that has neither: the second record holds the default there
C34_Witness ==
    \E p \in DOMAIN parsers :
        /\ Len(parsers[p].all_docs) = 2
        /\ parsers[p].all_docs[1].text # Range(0, 0)
        /\ parsers[p].all_docs[1].url # Range(0, 0)
        /\ parsers[p].all_docs[2].text = Range(0, 0)
        /\ parsers[p].all_docs[2].url = Range(0, 0)
        /\ parsers[p].all_docs[2].title # Range(0, 0)

\* ------------------------------------------------------------------ C35
\* the document ids a partial index holds
ids_of(inverted_index) == UNION {inverted_index[t] : t \in DOMAIN inverted_index}

\* the slices of the sorted table
Slices == par_chunks(documents, slice_size(Len(documents), parse_threads))

\* C35: the sorted table is cut into consecutive slices of max(num_docs / I, 1)
\* records, the last one possibly shorter; the slices in their order make up
\* the table, every record is in exactly one of them, the partial indices hold
\* ids of consecutive runs of the table and the reduced index is that of the
\* whole table; an empty table gives no slice and an empty index.
C35_Slicing ==
    (backend = "mapreduce" /\ pc \in {"map_index", "reduce", "built"}) =>
        LET n == Len(documents)
            size == IF n \div parse_threads >= 1 THEN n \div parse_threads ELSE 1
        IN  /\ \A k \in DOMAIN Slices :
                   /\ Len(Slices[k]) >= 1 /\ Len(Slices[k]) <= size
                   /\ k < Len(Slices) => Len(Slices[k]) = size
            /\ Flatten(Slices) = documents
            /\ \A j \in DOMAIN documents :
                   Cardinality({k \in DOMAIN Slices :
                                   documents[j] \in SeqToSet(Slices[k])}) = 1
            /\ n = 0 => Slices = <<>>
            /\ pc = "reduce" =>
                   /\ Len(partials) <= Len(Slices)
                   /\ \A k, l \in DOMAIN partials :
                          k < l => \A a \in ids_of(partials[k]), b \in ids_of(partials[l]) : a < b
                   /\ n = 0 => partials = <<>>
            /\ pc = "built" =>
                   /\ index = index_docs_index_only(file_contents, documents)
                   /\ n = 0 => index = EmptyIndex

\* five records on two threads: two slices of two records and a third slice
\* of one, indexed and not yet reduced
C35_Witness ==
    /\ pc = "reduce" /\ parse_threads = 2
    /\ Len(documents) = 5
    /\ Len(Slices) = 3 /\ Len(Slices[3]) = 1
    /\ Len(partials) = 3

\* an empty table has been reduced to an empty index
EmptyTableBuilt ==
    pc = "built" /\ backend = "mapreduce" /\ documents = <<>> /\ index = EmptyIndex

\* ------------------------------------------------------------------ C36
\* C36: what an interrupted write left under base_path.idx.tmp and
\* base_path.dcm.tmp is never read by load_from_path, which takes its bytes
\* from base_path.idx and base_path.dcm and changes no file; the next
\* write_index_to_path truncates both temporary files and has rewritten them
\* whole when it renames them; so whenever a write has returned Ok, after
\* however many interrupted ones, base_path.idx and base_path.dcm hold the
\* serialized index and table of the indexer and no temporary file is left.
C36_LeftoversHarmless ==
    /\ [](writer = "returned_ok" =>
             /\ disk.idx \in NewIdxFiles /\ disk.dcm = NewDcmFile
             /\ disk.idx_tmp = NoFile /\ disk.dcm_tmp = NoFile)
    /\ [][/\ loader' # loader =>
              (/\ disk' = disk
               /\ loader' = "read_idx" => serialized'.inverted_index = disk.idx.bytes
               /\ loader' = "returned_ok" =>
                      /\ serialized'.inverted_index = disk.idx.bytes
                      /\ serialized'.documents = disk.dcm.bytes)
          /\ writer' # writer =>
              (/\ writer' = "created_idx" => disk'.idx_tmp = File(<<>>)
               /\ writer' = "created_dcm" => disk'.dcm_tmp = File(<<>>)
               /\ writer' = "renamed_idx" =>
                      /\ disk.idx_tmp \in NewIdxFiles /\ disk.dcm_tmp = NewDcmFile
                      /\ disk'.idx = disk.idx_tmp)]_vars

\* in a directory where a write had been interrupted a write has returned Ok,
\* and load_from_path has then returned the artifacts of this build, which
\* are neither the older cache nor what the interrupted write left
C36_Witness ==
    /\ file_contents = DocB \o DocABC
    /\ writer = "returned_ok"
    /\ disk.idx \in NewIdxFiles /\ disk.dcm = NewDcmFile
    /\ disk.idx \notin {OldIdx, LeftoverIdx} /\ disk.dcm \notin {OldDcm, LeftoverDcm}
    /\ loader = "returned_ok"
    /\ File(serialized.inverted_index) = disk.idx
    /\ File(serialized.documents) = disk.dcm

\* ------------------------------------------------------------------ C37
\* the ids of the records of a batch
batch_ids(chunk) == {chunk[k].id : k \in DOMAIN chunk}

\* the indexers that hold a posting of document id
Holders(id) == {i \in DOMAIN indexers : id \in ids_of(held[i])}

\* C37: each document is indexed by one worker. In pipeline_partitioned no
\* two index tasks hold postings of the same document, no two batches of the
\* channel hold the same document, and a batch is received by one task: none
\* of its documents was in any task's map before the receive. In mapreduce
\* no two partial results hold postings of the same document.
C37_OneWorkerPerDocument ==
    /\ [](backend = "pipeline_partitioned" =>
             /\ \A i, j \in DOMAIN indexers :
                    i # j => ids_of(held[i]) \cap ids_of(held[j]) = {}
             /\ \A k, l \in DOMAIN rx_doc :
                    k # l => batch_ids(rx_doc[k]) \cap batch_ids(rx_doc[l]) = {}
             /\ \A k \in DOMAIN rx_doc : \A id \in batch_ids(rx_doc[k]) : Holders(id) = {})
    /\ [](backend = "mapreduce" =>
             \A k, l \in DOMAIN partials :
                 k # l => ids_of(partials[k]) \cap ids_of(partials[l]) = {})
    /\ [][(backend = "pipeline_partitioned" /\ DOMAIN indexers' = DOMAIN indexers) =>
             LET receivers == {i \in DOMAIN indexers :
                                  indexers'[i].inverted_index # indexers[i].inverted_index}
             IN  receivers # {} =>
                     /\ Cardinality(receivers) = 1
                     /\ rx_doc # <<>> /\ rx_doc' = Tail(rx_doc)
                     /\ \A i \in receivers :
                            ids_of(held[i])' \subseteq ids_of(held[i]) \cup batch_ids(Head(rx_doc))
         ]_vars

\* two index tasks have each received a batch: they hold postings of the same
\* term, for different documents
C37_Witness ==
    /\ backend = "pipeline_partitioned"
    /\ \E i, j \in DOMAIN indexers :
          /\ i # j
          /\ ids_of(held[i]) # {} /\ ids_of(held[j]) # {}
          /\ \E t \in DOMAIN held[i] : t \in DOMAIN held[j]

\* ------------------------------------------------------------------ C38
\* the (title, url, text) ranges of a record
ranges_of(d) == <<d.title, d.url, d.text>>

\* an index with each id replaced by the ranges of the record that has it
Resolved(inverted_index, docs) ==
    [t \in DOMAIN inverted_index |->
        {ranges_of(d) : d \in {e \in SeqToSet(docs) : e.id \in inverted_index[t]}}]

\* what the map/reduce build of the corpus on one thread yields
ReferenceBuild ==
    Resolved(sequential_index(file_contents), sequential_documents(file_contents))

\* C38: for the same corpus mapreduce and pipeline_partitioned yield, at
\* every parallelism and under every interleaving, the same key set and for
\* every term the same documents once each id is replaced by the ranges of
\* its record: every build yields what the one-thread map/reduce build does.
C38_BackendsAgreeUpToIds ==
    (Built /\ backend \in {"mapreduce", "pipeline_partitioned"}) =>
        Resolved(index, documents) = ReferenceBuild

\* the builds that kept every document agree up to the ids
AgreeWhenNoneDropped ==
    (Built /\ backend \in {"mapreduce", "pipeline_partitioned"}
           /\ Len(documents) = count_docs(file_contents)) =>
        Resolved(index, documents) = ReferenceBuild

\* a build whose ids differ from the one-thread build's and which agrees
\* with it once the ids are resolved
AgreesUnderOtherIds ==
    /\ Built /\ backend = "pipeline_partitioned"
    /\ index # sequential_index(file_contents)
    /\ Resolved(index, documents) = ReferenceBuild

\* ------------------------------------------------------------------ C39
\* append_documents has run over every --index file
AllAppended == backend \in FrontEnds /\ appended = Len(index_files)

\* C39: in the single-parser front-ends, once append_documents has run over
\* all the --index files, the records of the table have distinct ids and the
\* record at position i has id i.
C39_FrontEndIdsDense ==
    AllAppended =>
        /\ \A i \in DOMAIN documents : documents[i].id = i - 1
        /\ \A i, j \in DOMAIN documents : i # j => documents[i].id # documents[j].id

\* with one --index file the ids are the positions
OneFileIdsDense ==
    (AllAppended /\ Len(index_files) = 1) =>
        \A i \in DOMAIN documents : documents[i].id = i - 1

\* after each append_documents the ids count from 0 within every file
IdsRestartPerFile ==
    backend \in FrontEnds =>
        documents = Flatten([k \in 1..appended |-> append_documents(index_files[k])])

\* two files of one document each: two different records, both with id 0
TwoFilesSameId ==
    /\ AllAppended /\ Len(index_files) = 2
    /\ Len(documents) = 2
    /\ documents[1].id = 0 /\ documents[2].id = 0
    /\ documents[1] # documents[2]

====
